---- MODULE Spec2Model ----
(***************************************************************************)
(* Phoenix emergency beacon: a model of the emitter (DataCollector and     *)
(* BeaconTransmitter), the receiver record store (BeaconScanner) and the   *)
(* precision finder (PrecisionFindingView).                                *)
(*                                                                         *)
(* Units.  The source computes in IEEE doubles; the model uses integers:   *)
(*   accelerations          centi-g            (1.0 g       = 100)         *)
(*   rotation rates         centi-rad/s        (1.0 rad/s   = 100)         *)
(*   altitudes              millimetres        (1 m         = 1000)        *)
(*   battery level          per mille          (1.0         = 1000)        *)
(*   distances (scanner)    centimetres        (1 m         = 100)         *)
(*   distances (finder)     millimetres        (1 m         = 1000)        *)
(*   latitude, longitude    2^-17 degree       (1 degree    = 131072)      *)
(*   bearings, headings     1/60 degree        (1 degree    = 60)          *)
(*   time                   milliseconds                                   *)
(* A magnitude sqrt(x^2+y^2+z^2) of the accelerometer is kept squared, so  *)
(* a comparison  m < 0.5  of the source reads  m2 < 50*50  here.           *)
(***************************************************************************)
EXTENDS Integers, Sequences, FiniteSets, TLC

VARIABLES
  \* ---- clock
  now,                  \* Date.now()
  \* ---- DataCollector (emitter)
  bootTime,             \* DataCollector.bootTime
  startAltitude,        \* DataCollector.startAltitude (mm)
  accelerationHistory,  \* DataCollector.accelerationHistory (squared magnitudes)
  gyroscopeHistory,     \* DataCollector.gyroscopeHistory (magnitudes)
  fallDetectedTime,     \* DataCollector.fallDetectedTime
  lastInput,            \* the EncoderInput the last collectData call returned
  lastReading,          \* sensorData.accelerometer of that call
  collectedAt,          \* Date.now() of that call
  nCollect,             \* number of collectData calls made (bounded)
  \* ---- BeaconTransmitter (emitter)
  dataCollector,        \* BeaconTransmitter.dataCollector != null
  status,               \* BeaconTransmitter.state.status
  stateError,           \* BeaconTransmitter.state.error
  lastTransmission,     \* BeaconTransmitter.state.lastTransmission (0 = null)
  transmissionCount,    \* BeaconTransmitter.state.transmissionCount
  advertisingInterval,  \* BeaconTransmitter.advertisingInterval (0 = null, else a timer id)
  timers,               \* the armed setInterval timers: [id, interval]
  observed,             \* the state copy the state-change observer was last called with
  startPc,              \* position of the startAdvertising invocation (0 = none in flight)
  stopPc,               \* position of the stopAdvertising invocation (0 = none in flight)
  stopLog,              \* what the last stopAdvertising invocation did
  tx,                   \* the transmitBeacon invocations in flight, by slot
  staleEffects,         \* effects of invocations that a stopAdvertising overtook
  \* ---- platform collaborators of the emitter
  peripheral,           \* BLEPeripheralManager: advertising, and the data advertised
  sensorStreams,        \* SensorDataModule: the sensor streams running
  \* ---- BeaconScanner (receiver)
  scannerStatus,        \* BeaconScanner.state.status
  scannerError,         \* BeaconScanner.state.error
  beaconsFound,         \* BeaconScanner.state.beaconsFound, in Map insertion order
  scanStartPending,     \* a startScanning invocation awaits the native module
  scanStopPending,      \* a stopScanning invocation awaits the native module
  nativeScanning,       \* BLEBeaconScanner (native) is scanning
  pendingEvent,         \* a beacon-discovered event on its way to the callback
  nEvents,              \* number of discovery events raised (bounded)
  removedLog,           \* ids the last clearStaleBeacons call logged as removed
  lastFix,              \* per device: the last gps-valid payload its record stored
  \* ---- receiver App
  isScanning,           \* App state isScanning
  beacons,              \* App state beacons (the list shown)
  \* ---- PrecisionFindingView (receiver)
  beacon,               \* the beacon prop (the selected record)
  receiverLocation,     \* state receiverLocation
  distanceHistory,      \* ref distanceHistory
  distance,             \* state distance, kept as sum / n of the history
  distanceText,         \* state distanceText (its format)
  proximityLevel,       \* state proximityLevel
  lastProximityLevel,   \* ref lastProximityLevel
  usingGPSFallback,     \* state usingGPSFallback
  lastVibrationTime,    \* ref lastVibrationTime
  vibration,            \* the Vibration.vibrate call of the last effect run
  lastBeaconUpdate,     \* ref lastBeaconUpdate
  lastGPSDistance,      \* ref lastGPSDistance
  previousReceiverLocation, \* ref previousReceiverLocation
  mounted,              \* the view is mounted
  nTicks,               \* number of runs of the distance effect (bounded)
  distanceSetAt,        \* when setDistance was last called (0: never)
  sampleAt,             \* when the location watch last delivered a fix (0: never)
  bearing,              \* state bearing (1/60 degree)
  lastBearing,          \* ref lastBearing (1/60 degree)
  compassHeading,       \* state compassHeading (1/60 degree)
  compassHistory,       \* ref compassHistory
  hasLocation,          \* state hasLocation
  useFineTuning,        \* state useFineTuning
  \* ---- initialization (emitter App, receiver App)
  initCall,             \* per component: what its last initialize call saw and did
  scannerRef,           \* receiver App: scannerRef.current is set
  startWarnings,        \* emitter console: 'Already advertising' warnings logged
  \* ---- the radio link between an emitter and the receiver's native scanner
  air,                  \* the advertisement on the air: who sent it, and its manufacturer data
  nativeSeen            \* the native scanner's last scan result and what it made of it

collectorVars == <<bootTime, startAltitude, accelerationHistory, gyroscopeHistory,
                   fallDetectedTime, lastInput, lastReading, collectedAt, nCollect>>

txVars == <<dataCollector, status, stateError, lastTransmission, transmissionCount,
            advertisingInterval, timers, observed, startPc, stopPc,
            stopLog, tx, staleEffects, peripheral, sensorStreams>>

rxVars == <<scannerStatus, scannerError, beaconsFound, scanStartPending,
            scanStopPending, nativeScanning, pendingEvent, nEvents, removedLog,
            lastFix, isScanning, beacons>>

pfVars == <<beacon, receiverLocation, distanceHistory, distance, distanceText,
            proximityLevel, lastProximityLevel, usingGPSFallback, lastVibrationTime,
            vibration, lastBeaconUpdate, lastGPSDistance, previousReceiverLocation,
            mounted, nTicks, distanceSetAt, sampleAt, bearing, lastBearing,
            compassHeading, compassHistory, hasLocation, useFineTuning>>

initVars == <<initCall, scannerRef, startWarnings>>

linkVars == <<air, nativeSeen>>

vars == <<now, collectorVars, txVars, rxVars, pfVars, initVars, linkVars>>

(***************************************************************************)
(* Arithmetic helpers                                                      *)
(***************************************************************************)
Abs(n) == IF n < 0 THEN -n ELSE n

Min(a, b) == IF a < b THEN a ELSE b

Max(a, b) == IF a > b THEN a ELSE b

\* Math.round(n / d) for d > 0: round half towards +infinity.
RoundDiv(n, d) == (2 * n + d) \div (2 * d)

\* Math.floor(n / d) for d > 0.
FloorDiv(n, d) == n \div d

RECURSIVE SqrtSearch(_, _, _)
SqrtSearch(s, lo, hi) ==
  IF lo >= hi THEN lo
  ELSE LET mid == (lo + hi + 1) \div 2
       IN IF mid * mid <= s THEN SqrtSearch(s, mid, hi)
          ELSE SqrtSearch(s, lo, mid - 1)

\* Math.sqrt on the model's grid: the integer part of the root.
ISqrt(s) == SqrtSearch(s, 0, Min(s, 40000))

RECURSIVE SumSeq(_)
SumSeq(q) == IF q = <<>> THEN 0 ELSE Head(q) + SumSeq(Tail(q))

RECURSIVE SumSqSeq(_)
SumSqSeq(q) == IF q = <<>> THEN 0 ELSE Head(q) * Head(q) + SumSqSeq(Tail(q))

\* push with no shift: the sequence grows without limit.
PushUncapped(q, v, cap) == Append(q, v)

\* arr.push(v); if (arr.length > cap) arr.shift();
PushCapped(q, v, cap) ==
  LET p == Append(q, v) IN IF Len(p) > cap THEN Tail(p) ELSE p

(***************************************************************************)
(* Sensor snapshots (SensorDataModule.getAllSensorData)                    *)
(***************************************************************************)
NoVec == [present |-> FALSE, x |-> 0, y |-> 0, z |-> 0]

Vec(x, y, z) == [present |-> TRUE, x |-> x, y |-> y, z |-> z]

NoLocation ==
  [present |-> FALSE, latitude |-> 0, longitude |-> 0, altitude |-> 0,
   hasAccuracy |-> FALSE, accuracy |-> 0]

\* latitude/longitude in 2^-17 degree, altitude in mm, accuracy in cm.
Location(lat, lon, alt, acc) ==
  [present |-> TRUE, latitude |-> lat, longitude |-> lon, altitude |-> alt,
   hasAccuracy |-> TRUE, accuracy |-> acc]

NoAltimeter == [present |-> FALSE, relativeAltitude |-> 0]

Altimeter(rel) == [present |-> TRUE, relativeAltitude |-> rel]

Snapshot(loc, acc, gyr, alt, level, charging) ==
  [location |-> loc, accelerometer |-> acc, gyroscope |-> gyr, altimeter |-> alt,
   battery |-> [level |-> level, isCharging |-> charging]]

MagSq(v) == v.x * v.x + v.y * v.y + v.z * v.z

(***************************************************************************)
(* DataCollector                                                           *)
(***************************************************************************)
FALL_COOLDOWN_MS == 60000

ACCEL_HISTORY_MAX == 10

GYRO_HISTORY_MAX == 20

\* The MAC-style device id generateDeviceId returns, as its six bytes.
EmitterDeviceId == <<222, 173, 190, 239, 16, 32>>

\* DataCollector.detectMotion
detectMotion(s) ==
  IF s.accelerometer.present
    THEN \* Math.abs(magnitude - 1.0) > 0.1
         MagSq(s.accelerometer) > 110 * 110 \/ MagSq(s.accelerometer) < 90 * 90
  ELSE IF s.gyroscope.present
    THEN \* rotationMagnitude > 0.5
         MagSq(s.gyroscope) > 50 * 50
  ELSE FALSE

\* The cooldown test of detectFall (lines 155 and 195).
InCooldown(fdt, t) == fdt > 0 /\ t - fdt < FALL_COOLDOWN_MS

\* detectFall without the test for at least five readings.
detectFallAnyLength(s, hist, fdt, t) ==
  IF ~s.accelerometer.present
    THEN [ret |-> FALSE, history |-> hist, fallDetectedTime |-> fdt]
  ELSE IF InCooldown(fdt, t)
    THEN [ret |-> TRUE, history |-> hist, fallDetectedTime |-> fdt]
  ELSE
    LET a      == s.accelerometer
        pushed == PushCapped(hist, MagSq(a), ACCEL_HISTORY_MAX)
    IN IF /\ \E i \in 1..Len(pushed) : pushed[i] < 50 * 50
          /\ \E i \in 1..Len(pushed) : pushed[i] > 250 * 250
          /\ Abs(Abs(a.z) - 100) < 30 /\ Abs(a.x) < 50 /\ Abs(a.y) < 50
         THEN [ret |-> TRUE, history |-> pushed, fallDetectedTime |-> t]
       ELSE [ret |-> FALSE, history |-> pushed, fallDetectedTime |-> fdt]

\* DataCollector.detectFall at time t: the value returned and the fields it leaves.
detectFall(s, hist, fdt, t) ==
  IF ~s.accelerometer.present
    THEN [ret |-> FALSE, history |-> hist, fallDetectedTime |-> fdt]
  ELSE IF InCooldown(fdt, t)
    THEN [ret |-> TRUE, history |-> hist, fallDetectedTime |-> fdt]
  ELSE
    LET a      == s.accelerometer
        pushed == PushCapped(hist, MagSq(a), ACCEL_HISTORY_MAX)
        hasFreeFall  == \E i \in 1..Len(pushed) : pushed[i] < 50 * 50
        hasImpact    == \E i \in 1..Len(pushed) : pushed[i] > 250 * 250
        isHorizontal == /\ Abs(Abs(a.z) - 100) < 30
                        /\ Abs(a.x) < 50
                        /\ Abs(a.y) < 50
    IN IF Len(pushed) < 5
         THEN [ret |-> FALSE, history |-> pushed, fallDetectedTime |-> fdt]
       ELSE IF hasFreeFall /\ hasImpact /\ isHorizontal
         THEN [ret |-> TRUE, history |-> pushed, fallDetectedTime |-> t]
       ELSE [ret |-> InCooldown(fdt, t), history |-> pushed, fallDetectedTime |-> fdt]

\* DataCollector.detectUnstableEnvironment: the value returned and the history left.
detectUnstableEnvironment(s, ghist) ==
  IF ~s.gyroscope.present
    THEN [ret |-> FALSE, history |-> ghist]
  ELSE
    LET pushed == PushCapped(ghist, ISqrt(MagSq(s.gyroscope)), GYRO_HISTORY_MAX)
        n      == Len(pushed)
        sum    == SumSeq(pushed)
        \* avgRotation > 1.0  and  variance > 0.5, cleared of the divisions by n
        avgHigh == sum > 100 * n
        varHigh == n * SumSqSeq(pushed) - sum * sum > 5000 * n * n
    IN IF n < 10 THEN [ret |-> FALSE, history |-> pushed]
       ELSE [ret |-> avgHigh /\ varHigh, history |-> pushed]

\* DataCollector.collectData at time t: the EncoderInput returned and the fields left.
collectData(s, t, boot, startAlt, hist, ghist, fdt) ==
  LET latitude    == IF s.location.present THEN s.location.latitude ELSE 0
      longitude   == IF s.location.present THEN s.location.longitude ELSE 0
      altitudeMSL == IF s.location.present THEN s.location.altitude ELSE 0
      relativeAltitude ==
        IF s.altimeter.present
          THEN RoundDiv(s.altimeter.relativeAltitude - startAlt, 10)
        ELSE IF s.location.present
          THEN RoundDiv(s.location.altitude - startAlt, 10)
        ELSE 0
      battery   == IF s.battery.level >= 0 THEN RoundDiv(s.battery.level, 10) ELSE 0
      timestamp == FloorDiv(t - boot, 1000)
      motionDetected == detectMotion(s)
      lowBattery == s.battery.level < 200 /\ s.battery.level >= 0
      gpsValid   == /\ s.location.present
                    /\ s.location.hasAccuracy
                    /\ s.location.accuracy < 200 * 100
      fall     == detectFall(s, hist, fdt, t)
      unstable == detectUnstableEnvironment(s, ghist)
  IN [input |->
        [deviceId |-> EmitterDeviceId,
         latitude |-> latitude,
         longitude |-> longitude,
         altitudeMSL |-> altitudeMSL,
         relativeAltitude |-> relativeAltitude,
         battery |-> battery,
         timestamp |-> timestamp,
         motionDetected |-> motionDetected,
         isCharging |-> s.battery.isCharging,
         sosActivated |-> FALSE,
         lowBattery |-> lowBattery,
         gpsValid |-> gpsValid,
         stationary |-> ~motionDetected,
         fallDetected |-> fall.ret,
         unstableEnvironment |-> unstable.ret],
      accelerationHistory |-> fall.history,
      fallDetectedTime |-> fall.fallDetectedTime,
      gyroscopeHistory |-> unstable.history]

\* The EncoderInput of a collector that has not been called yet.
NoInput ==
  [deviceId |-> EmitterDeviceId, latitude |-> 0, longitude |-> 0, altitudeMSL |-> 0,
   relativeAltitude |-> 0, battery |-> 0, timestamp |-> 0, motionDetected |-> FALSE,
   isCharging |-> FALSE, sosActivated |-> FALSE, lowBattery |-> FALSE,
   gpsValid |-> FALSE, stationary |-> TRUE, fallDetected |-> FALSE,
   unstableEnvironment |-> FALSE]

(***************************************************************************)
(* encodeBeaconData (the fields written into the 20-byte packet)           *)
(***************************************************************************)
\* Buffer.writeFloatBE: the nearest binary32.  On the 2^-17 degree grid every
\* value below 2^24 units is a binary32; from 2^24 on the binary32 values are
\* the even units, and a tie goes to the even mantissa.
ToFloat32(v) ==
  IF Abs(v) < 16777216 \/ v % 2 = 0 THEN v
  ELSE IF (v + 1) % 4 = 0 THEN v + 1 ELSE v - 1

InInt16(n) == n >= -32768 /\ n <= 32767

\* The flags byte: bit 0 motion, 1 charging, 2 sos, 3 low battery, 4 gps valid,
\* 5 stationary, 6 fall detected, 7 unstable environment.
FlagsByte(input) ==
    (IF input.motionDetected THEN 1 ELSE 0)
  + (IF input.isCharging THEN 2 ELSE 0)
  + (IF input.sosActivated THEN 4 ELSE 0)
  + (IF input.lowBattery THEN 8 ELSE 0)
  + (IF input.gpsValid THEN 16 ELSE 0)
  + (IF input.stationary THEN 32 ELSE 0)
  + (IF input.fallDetected THEN 64 ELSE 0)
  + (IF input.unstableEnvironment THEN 128 ELSE 0)

\* encodeBeaconData with the timestamp stored modulo 2^16 instead of clamped.
encodeBeaconDataWrapping(input) ==
  LET alt == RoundDiv(input.altitudeMSL, 1000)
      rel == input.relativeAltitude
      ts  == input.timestamp
  IN [ok |-> InInt16(alt) /\ InInt16(rel) /\ ts >= 0,
      deviceId |-> [i \in 1..4 |->
                      IF i <= Len(input.deviceId) THEN input.deviceId[i] ELSE 0],
      latitude |-> ToFloat32(input.latitude),
      longitude |-> ToFloat32(input.longitude),
      altitudeMSL |-> alt,
      relativeAltitude |-> rel,
      battery |-> Min(100, Max(0, input.battery)),
      timestamp |-> ts % 65536,
      flags |-> FlagsByte(input)]

\* encodeBeaconData: ok is FALSE where a Buffer write throws (value out of range).
encodeBeaconData(input) ==
  LET alt == RoundDiv(input.altitudeMSL, 1000)
      rel == input.relativeAltitude
      ts  == input.timestamp
  IN [ok |-> InInt16(alt) /\ InInt16(rel) /\ ts >= 0,
      deviceId |-> [i \in 1..4 |->
                      IF i <= Len(input.deviceId) THEN input.deviceId[i] ELSE 0],
      latitude |-> ToFloat32(input.latitude),
      longitude |-> ToFloat32(input.longitude),
      altitudeMSL |-> alt,
      relativeAltitude |-> rel,
      battery |-> Min(100, Max(0, input.battery)),
      timestamp |-> Min(65535, ts),
      flags |-> FlagsByte(input)]

(***************************************************************************)
(* BeaconTransmitter                                                       *)
(***************************************************************************)
INTERVAL_EMERGENCY == 1000

INTERVAL_CRITICAL == 15000

INTERVAL_POWER_SAVE == 10000

INTERVAL_ACTIVE == 3000

INTERVAL_NORMAL == 5000

\* calculateAdaptiveInterval with the battery rows tested ahead of the emergency row.
calculateAdaptiveIntervalBatteryFirst(data) ==
  IF data.battery < 10 THEN INTERVAL_CRITICAL
  ELSE IF data.lowBattery THEN INTERVAL_POWER_SAVE
  ELSE IF data.sosActivated \/ data.fallDetected \/ data.unstableEnvironment
    THEN INTERVAL_EMERGENCY
  ELSE IF data.motionDetected THEN INTERVAL_ACTIVE
  ELSE INTERVAL_NORMAL

\* BeaconTransmitter.calculateAdaptiveInterval
calculateAdaptiveInterval(data) ==
  IF data.sosActivated \/ data.fallDetected \/ data.unstableEnvironment
    THEN INTERVAL_EMERGENCY
  ELSE IF data.battery < 10 THEN INTERVAL_CRITICAL
  ELSE IF data.lowBattery THEN INTERVAL_POWER_SAVE
  ELSE IF data.motionDetected THEN INTERVAL_ACTIVE
  ELSE INTERVAL_NORMAL

MaxInflight == 1

MaxTransmissions == 2

\* Slot 0 is the transmitBeacon call startAdvertising awaits; the others are
\* the invocations the tick timer starts.
TxSlots == 0..MaxInflight

NoTx == [pc |-> "none", input |-> NoInput, stale |-> FALSE]

NoPacket == encodeBeaconData(NoInput)

SensorNames == <<"location", "accelerometer", "gyroscope", "altimeter">>

\* The platform calls stopAdvertising makes, in order.
StopCalls == <<"peripheral", "location", "accelerometer", "gyroscope", "altimeter">>

StopsUpTo(k) == {StopCalls[j] : j \in 1..k}

NoStopLog == [timerCleared |-> FALSE, attempted |-> {}, failed |-> "none"]

\* The snapshot of a device lying still without motion sensors, battery 80 %.
TxSnapshots ==
  { Snapshot(NoLocation, NoVec, NoVec, NoAltimeter, 800, FALSE) }

BleStates == {"poweredOn", "poweredOff", "unauthorized"}

\* BeaconTransmitter.updateState followed by notifyStateChange
updateState(st, err) ==
  /\ status' = st
  /\ stateError' = err
  /\ observed' = [status |-> st, error |-> err,
                  lastTransmission |-> lastTransmission,
                  transmissionCount |-> transmissionCount]

\* The catch of transmitBeacon as it would be if it went through updateState.
surfaceTransmitErrorAsStatus == updateState("error", "Transmission failed")

\* this.state.error = ...; this.notifyStateChange()   (the catch of transmitBeacon)
surfaceTransmitError ==
  /\ stateError' = "Transmission failed"
  /\ observed' = [status |-> status, error |-> "Transmission failed",
                  lastTransmission |-> lastTransmission,
                  transmissionCount |-> transmissionCount]
  /\ UNCHANGED status

\* A clearInterval that leaves the timer armed.
clearIntervalKeeps(ts, id) == ts

\* clearInterval(id)
clearInterval(ts, id) == {t \in ts : t.id # id}

\* The handle setInterval returns: one no armed timer carries.
FreshTimerId(ts) == CHOOSE n \in 1..(Cardinality(ts) + 1) : \A t \in ts : t.id # n

\* An invocation of transmitBeacon leaves its slot.
EndTx(i) == tx' = [tx EXCEPT ![i] = NoTx]

\* The components that have an initialize method.
Components == {"transmitter", "scanner"}

\* What an initialize call saw and did: the adapter state the native module
\* reported ("none": it was not asked) and whether the call threw.
InitCall(state, rejected) == [state |-> state, rejected |-> rejected]

NoInitCall == InitCall("none", FALSE)

\* result.state !== 'poweredOn' with any state but poweredOff let through.
adapterReadyUnlessOff(state) == state # "poweredOff"

\* result.state !== 'poweredOn' (the test that throws), negated
adapterReady(state) == state = "poweredOn"

\* BeaconTransmitter.initialize (called once, before any start or stop, until it
\* succeeds): the adapter state is tested first, then the permissions.
Initialize(ble, granted, s) ==
  /\ ~dataCollector
  /\ startPc = 0 /\ stopPc = 0
  /\ initCall' = [initCall EXCEPT !["transmitter"] =
                    InitCall(ble, ~(adapterReady(ble) /\ granted))]
  /\ IF adapterReady(ble) /\ granted
       THEN /\ dataCollector' = TRUE
            \* DataCollector.initialize: the starting altitude
            /\ startAltitude' =
                 IF s.altimeter.present THEN s.altimeter.relativeAltitude
                 ELSE IF s.location.present THEN s.location.altitude
                 ELSE startAltitude
            /\ UNCHANGED <<status, stateError, observed>>
       ELSE /\ updateState("error", "Initialization failed")
            /\ UNCHANGED <<dataCollector, startAltitude>>
  /\ UNCHANGED <<linkVars, scannerRef, startWarnings, pfVars, rxVars, now, bootTime, accelerationHistory, gyroscopeHistory, fallDetectedTime,
                 lastInput, lastReading, collectedAt, nCollect, lastTransmission, transmissionCount,
                 advertisingInterval, timers, startPc, stopPc, stopLog, tx,
                 staleEffects, peripheral, sensorStreams>>

\* The test of startAdvertising left out: no status counts as advertising.
alreadyAdvertisingNever(st) == FALSE

\* this.state.status === 'advertising'
alreadyAdvertising(st) == st = "advertising"

\* startAdvertising called while the status is 'advertising': it logs
\* 'Already advertising' and returns.
StartWhileAdvertising ==
  /\ dataCollector
  /\ alreadyAdvertising(status)
  /\ startWarnings' = startWarnings + 1
  /\ UNCHANGED <<linkVars, initCall, scannerRef, pfVars, rxVars, now, collectorVars,
                 txVars>>

\* startAdvertising up to its first await.  One startAdvertising and one
\* stopAdvertising invocation are followed at a time.
StartBegin ==
  /\ dataCollector
  /\ ~alreadyAdvertising(status)
  /\ startPc = 0
  /\ updateState("starting", "null")
  /\ startPc' = 1
  /\ tx' = [i \in DOMAIN tx |-> [tx[i] EXCEPT !.stale = FALSE]]
  /\ stopLog' = IF stopPc = 0 THEN NoStopLog ELSE stopLog
  /\ UNCHANGED <<linkVars, initVars, pfVars, rxVars, now, collectorVars, dataCollector, lastTransmission, transmissionCount,
                 advertisingInterval, timers, stopPc, staleEffects,
                 peripheral, sensorStreams>>

\* A sensor stream's start settles (a rejection is logged and ignored); after the
\* fourth, startAdvertising calls transmitBeacon.
StartSensor(ok) ==
  /\ startPc \in 1..4
  /\ sensorStreams' = IF ok THEN sensorStreams \cup {SensorNames[startPc]}
                      ELSE sensorStreams
  /\ startPc' = startPc + 1
  /\ tx' = IF startPc = 4 THEN [tx EXCEPT ![0] = [NoTx EXCEPT !.pc = "collect"]] ELSE tx
  /\ UNCHANGED <<linkVars, initVars, pfVars, rxVars, now, collectorVars, dataCollector, status, stateError, lastTransmission,
                 transmissionCount, advertisingInterval, timers, observed, stopPc,
                 stopLog, staleEffects, peripheral>>

\* The awaited transmitBeacon has returned: updateState('advertising').
StartFinish ==
  /\ startPc = 5
  /\ tx[0].pc = "none"
  /\ updateState("advertising", "null")
  /\ startPc' = 0
  /\ UNCHANGED <<linkVars, initVars, pfVars, rxVars, now, collectorVars, dataCollector, lastTransmission, transmissionCount,
                 advertisingInterval, timers, stopPc, stopLog, tx, staleEffects,
                 peripheral, sensorStreams>>

\* The tick timer fires: a new transmitBeacon invocation starts.
TimerFire(i) ==
  /\ i \in DOMAIN tx \ {0}
  /\ timers # {}
  /\ dataCollector
  /\ tx[i].pc = "none"
  /\ \A j \in 1..(i - 1) : tx[j].pc # "none"
  /\ tx' = [tx EXCEPT ![i] = [NoTx EXCEPT !.pc = "collect"]]
  /\ UNCHANGED <<linkVars, initVars, pfVars, rxVars, now, collectorVars, dataCollector, status, stateError, lastTransmission,
                 transmissionCount, advertisingInterval, timers, observed, startPc,
                 stopPc, stopLog, staleEffects, peripheral, sensorStreams>>

\* transmitBeacon: the sensor snapshot arrives; collectData and encodeBeaconData
\* run, and the peripheral is asked to stop.  (The second getAllSensorData only
\* feeds the log.)  A rejected snapshot or a failed encode goes to the catch.
TxCollect(i, s, ok) ==
  /\ tx[i].pc = "collect"
  /\ IF ok
       THEN LET r == collectData(s, now, bootTime, startAltitude, accelerationHistory,
                                 gyroscopeHistory, fallDetectedTime)
            IN /\ lastInput' = r.input
               /\ lastReading' = s.accelerometer
               /\ accelerationHistory' = r.accelerationHistory
               /\ fallDetectedTime' = r.fallDetectedTime
               /\ gyroscopeHistory' = r.gyroscopeHistory
               /\ collectedAt' = now
               /\ IF encodeBeaconData(r.input).ok
                    THEN /\ tx' = [tx EXCEPT ![i].pc = "pstop", ![i].input = r.input]
                         /\ UNCHANGED <<status, stateError, observed>>
                    ELSE /\ EndTx(i)
                         /\ surfaceTransmitError
       ELSE /\ EndTx(i)
            /\ surfaceTransmitError
            /\ UNCHANGED <<lastInput, lastReading, accelerationHistory, fallDetectedTime,
                           gyroscopeHistory, collectedAt>>
  /\ UNCHANGED <<linkVars, initVars, pfVars, rxVars, now, bootTime, startAltitude, nCollect, dataCollector, lastTransmission,
                 transmissionCount, advertisingInterval, timers, startPc, stopPc,
                 stopLog, staleEffects, peripheral, sensorStreams>>

\* transmitBeacon: BLEPeripheralManager.stopAdvertising settles (errors ignored) and
\* startAdvertising(hexData) is called.
TxPeripheralStop(i) ==
  /\ tx[i].pc = "pstop"
  /\ peripheral' = [peripheral EXCEPT !.advertising = FALSE]
  /\ tx' = [tx EXCEPT ![i].pc = "pstart"]
  /\ UNCHANGED <<linkVars, initVars, pfVars, rxVars, now, collectorVars, dataCollector, status, stateError, lastTransmission,
                 transmissionCount, advertisingInterval, timers, observed, startPc,
                 stopPc, stopLog, staleEffects, sensorStreams>>

\* transmitBeacon: BLEPeripheralManager.startAdvertising settles.  Resolved: the
\* state is updated and the tick timer re-armed with the adaptive interval.
\* Rejected: the catch records the error.
TxPeripheralStart(i, ok) ==
  /\ tx[i].pc = "pstart"
  /\ EndTx(i)
  /\ IF ok
       THEN /\ peripheral' = [advertising |-> TRUE, data |-> encodeBeaconData(tx[i].input)]
            /\ lastTransmission' = now
            /\ transmissionCount' = transmissionCount + 1
            /\ observed' = [status |-> status, error |-> stateError,
                            lastTransmission |-> now,
                            transmissionCount |-> transmissionCount + 1]
            /\ LET kept == IF advertisingInterval # 0
                             THEN clearInterval(timers, advertisingInterval)
                             ELSE timers
                   id   == FreshTimerId(kept)
               IN /\ timers' = kept \cup
                        {[id |-> id, interval |-> calculateAdaptiveInterval(tx[i].input)]}
                  /\ advertisingInterval' = id
            /\ staleEffects' = IF tx[i].stale
                                 THEN staleEffects \cup {"startAdvertising", "setInterval"}
                                 ELSE staleEffects
            /\ UNCHANGED <<status, stateError>>
       ELSE /\ surfaceTransmitError
            /\ UNCHANGED <<peripheral, lastTransmission, transmissionCount,
                           advertisingInterval, timers, staleEffects>>
  /\ UNCHANGED <<linkVars, initVars, pfVars, rxVars, now, collectorVars, dataCollector, startPc, stopPc, stopLog,
                 sensorStreams>>

\* stopAdvertising up to its first await: 'stopping', the tick timer cleared, the
\* peripheral asked to stop.
StopBegin ==
  /\ status = "advertising"
  /\ stopPc = 0
  /\ updateState("stopping", "null")
  /\ timers' = IF advertisingInterval # 0 THEN clearInterval(timers, advertisingInterval)
               ELSE timers
  /\ advertisingInterval' = 0
  /\ stopPc' = 1
  /\ stopLog' = [timerCleared |-> \A t \in timers' : t.id # advertisingInterval,
                 attempted |-> {StopCalls[1]}, failed |-> "none"]
  /\ tx' = [i \in DOMAIN tx |-> IF tx[i].pc # "none" THEN [tx[i] EXCEPT !.stale = TRUE]
                              ELSE tx[i]]
  /\ UNCHANGED <<linkVars, initVars, pfVars, rxVars, now, collectorVars, dataCollector, lastTransmission, transmissionCount,
                 startPc, staleEffects, peripheral, sensorStreams>>

\* stopAdvertising as it would be with every stop wrapped in its own catch: a
\* rejected stop is logged and the next one is called.
StopAwaitBestEffort(ok) ==
  /\ stopPc \in 1..5
  /\ IF ok
       THEN IF stopPc = 1
              THEN /\ peripheral' = [peripheral EXCEPT !.advertising = FALSE]
                   /\ UNCHANGED sensorStreams
              ELSE /\ sensorStreams' = sensorStreams \ {StopCalls[stopPc]}
                   /\ UNCHANGED peripheral
       ELSE UNCHANGED <<peripheral, sensorStreams>>
  /\ IF stopPc = 5
       THEN /\ updateState("idle", "null")
            /\ stopPc' = 0
            /\ stopLog' = IF ok THEN stopLog ELSE [stopLog EXCEPT !.failed = StopCalls[stopPc]]
       ELSE /\ stopPc' = stopPc + 1
            /\ stopLog' = [stopLog EXCEPT
                             !.attempted = @ \cup {StopCalls[stopPc + 1]},
                             !.failed = IF ok THEN @ ELSE StopCalls[stopPc]]
            /\ UNCHANGED <<status, stateError, observed>>
  /\ UNCHANGED <<linkVars, initVars, pfVars, rxVars, now, collectorVars, dataCollector, lastTransmission, transmissionCount,
                 advertisingInterval, timers, startPc, tx, staleEffects>>

\* stopAdvertising: the stop call it awaits (StopCalls[stopPc]) settles.  Resolved:
\* the next stop is called, and after the last one updateState('idle').  Rejected:
\* the catch sets 'error' and rethrows.
StopAwait(ok) ==
  /\ stopPc \in 1..5
  /\ IF ok
       THEN /\ IF stopPc = 1
                 THEN /\ peripheral' = [peripheral EXCEPT !.advertising = FALSE]
                      /\ UNCHANGED sensorStreams
                 ELSE /\ sensorStreams' = sensorStreams \ {StopCalls[stopPc]}
                      /\ UNCHANGED peripheral
            /\ IF stopPc = 5
                 THEN /\ updateState("idle", "null")
                      /\ stopPc' = 0
                      /\ UNCHANGED stopLog
                 ELSE /\ stopPc' = stopPc + 1
                      /\ stopLog' = [stopLog EXCEPT
                                       !.attempted = @ \cup {StopCalls[stopPc + 1]}]
                      /\ UNCHANGED <<status, stateError, observed>>
       ELSE /\ updateState("error", "Failed to stop")
            /\ stopPc' = 0
            /\ stopLog' = [stopLog EXCEPT !.failed = StopCalls[stopPc]]
            /\ UNCHANGED <<peripheral, sensorStreams>>
  /\ UNCHANGED <<linkVars, initVars, pfVars, rxVars, now, collectorVars, dataCollector, lastTransmission, transmissionCount,
                 advertisingInterval, timers, startPc, tx, staleEffects>>

TxInit ==
  /\ dataCollector = FALSE
  /\ status = "idle"
  /\ stateError = "null"
  /\ lastTransmission = 0
  /\ transmissionCount = 0
  /\ advertisingInterval = 0
  /\ timers = {}
  /\ observed = [status |-> "idle", error |-> "null", lastTransmission |-> 0,
                 transmissionCount |-> 0]
  /\ startPc = 0
  /\ stopPc = 0
  /\ stopLog = NoStopLog
  /\ tx = [i \in TxSlots |-> NoTx]
  /\ staleEffects = {}
  /\ peripheral = [advertising |-> FALSE, data |-> NoPacket]
  /\ sensorStreams = {}

(***************************************************************************)
(* BeaconScanner (receiver record store)                                   *)
(***************************************************************************)
STALE_THRESHOLD_MS == 60000

RSSI_HISTORY_MAX == 10

LOCATION_HISTORY_MAX == 10

\* Centimetres per coordinate unit: 6371000 m * (pi / 180) * 2^-17.
CmPerUnit == 85

\* BeaconScanner.calculateDistance (Haversine), in cm.  For the coordinates of
\* the model (within 0.01 degree of the equator and of each other) cos(lat) = 1
\* and the great-circle arc is the chord, to well under a centimetre.
calculateDistance(lat1, lon1, lat2, lon2) ==
  ISqrt((CmPerUnit * (lat2 - lat1)) * (CmPerUnit * (lat2 - lat1))
        + (CmPerUnit * (lon2 - lon1)) * (CmPerUnit * (lon2 - lon1)))

\* Array.prototype.sort((a, b) => a - b), by insertion.
RECURSIVE SortAsc(_)
SortAsc(q) ==
  IF Len(q) <= 1 THEN q
  ELSE LET rest == SortAsc(Tail(q))
           x    == Head(q)
           k    == Cardinality({j \in 1..Len(rest) : rest[j] < x})
       IN SubSeq(rest, 1, k) \o <<x>> \o SubSeq(rest, k + 1, Len(rest))

\* sum of val * (index + 1) over the sequence
RECURSIVE WeightedSum(_)
WeightedSum(q) ==
  IF q = <<>> THEN 0 ELSE WeightedSum(SubSeq(q, 1, Len(q) - 1)) + q[Len(q)] * Len(q)

\* smoothRSSI falling back to the whole window as soon as the filter removes
\* a sample.
smoothRSSIFallsBack(newRssi, history) ==
  LET updatedHistory == PushCapped(history, newRssi, RSSI_HISTORY_MAX)
      n      == Len(updatedHistory)
      sorted == SortAsc(updatedHistory)
      q1     == sorted[((n * 25) \div 100) + 1]
      q3     == sorted[((n * 75) \div 100) + 1]
      inBounds(val) == 2 * val >= 5 * q1 - 3 * q3 /\ 2 * val <= 5 * q3 - 3 * q1
      kept   == SelectSeq(updatedHistory, inBounds)
      filteredHistory == IF n >= 5 /\ Len(kept) >= n THEN kept ELSE updatedHistory
      m      == Len(filteredHistory)
  IN [smoothed |-> RoundDiv(WeightedSum(filteredHistory), (m * (m + 1)) \div 2),
      newHistory |-> updatedHistory]

\* smoothRSSI with every retained sample given the same weight.
smoothRSSIEqualWeights(newRssi, history) ==
  LET updatedHistory == PushCapped(history, newRssi, RSSI_HISTORY_MAX)
      n      == Len(updatedHistory)
      sorted == SortAsc(updatedHistory)
      q1     == sorted[((n * 25) \div 100) + 1]
      q3     == sorted[((n * 75) \div 100) + 1]
      inBounds(val) == 2 * val >= 5 * q1 - 3 * q3 /\ 2 * val <= 5 * q3 - 3 * q1
      kept   == SelectSeq(updatedHistory, inBounds)
      filteredHistory == IF n >= 5 /\ Len(kept) >= 3 THEN kept ELSE updatedHistory
  IN [smoothed |-> RoundDiv(SumSeq(filteredHistory), Len(filteredHistory)),
      newHistory |-> updatedHistory]

\* smoothRSSI with no outlier rejection: the weighted mean of the whole window.
smoothRSSIUnfiltered(newRssi, history) ==
  LET updatedHistory == PushCapped(history, newRssi, RSSI_HISTORY_MAX)
      n              == Len(updatedHistory)
  IN [smoothed |-> RoundDiv(WeightedSum(updatedHistory), (n * (n + 1)) \div 2),
      newHistory |-> updatedHistory]

\* BeaconScanner.smoothRSSI
smoothRSSI(newRssi, history) ==
  LET updatedHistory == PushCapped(history, newRssi, RSSI_HISTORY_MAX)
      n      == Len(updatedHistory)
      sorted == SortAsc(updatedHistory)
      q1     == sorted[((n * 25) \div 100) + 1]
      q3     == sorted[((n * 75) \div 100) + 1]
      iqr    == q3 - q1
      \* val >= q1 - 1.5 * iqr  and  val <= q3 + 1.5 * iqr, doubled
      inBounds(val) == 2 * val >= 2 * q1 - 3 * iqr /\ 2 * val <= 2 * q3 + 3 * iqr
      kept   == SelectSeq(updatedHistory, inBounds)
      filteredHistory ==
        IF n >= 5 THEN (IF Len(kept) < 3 THEN updatedHistory ELSE kept)
        ELSE updatedHistory
      m      == Len(filteredHistory)
  IN [smoothed |-> RoundDiv(WeightedSum(filteredHistory), (m * (m + 1)) \div 2),
      newHistory |-> updatedHistory]

\* The decoded payload (BeaconData) of an advertisement: the fields the record
\* store reads.
Payload(id, lat, lon, alt, valid) ==
  [deviceId |-> id, latitude |-> lat, longitude |-> lon, altitudeMSL |-> alt,
   flags |-> [gpsValid |-> valid]]

\* BeaconDiscoveredEvent
Event(data, rssi, t) == [present |-> TRUE, beaconData |-> data, rssi |-> rssi, timestamp |-> t]

NoEvent == [present |-> FALSE]

NoFix == [present |-> FALSE]

\* Map.get(id): the position of the record in the store, 0 if there is none.
IndexOfBeacon(store, id) ==
  IF \E k \in 1..Len(store) : store[k].id = id
    THEN CHOOSE k \in 1..Len(store) : store[k].id = id
    ELSE 0

\* BeaconScanner.getBeacons: the records, most recently seen first (a stable sort).
RECURSIVE getBeacons(_)
getBeacons(store) ==
  IF Len(store) <= 1 THEN store
  ELSE LET rest == getBeacons(Tail(store))
           x    == Head(store)
           k    == Cardinality({j \in 1..Len(rest) : rest[j].lastSeen > x.lastSeen})
       IN SubSeq(rest, 1, k) \o <<x>> \o SubSeq(rest, k + 1, Len(rest))

\* handleBeaconDiscovered: the record it stores for the event, given the
\* record the store holds for the device (existing.present = FALSE: none).
DiscoveredBeacon(ev, existing) ==
  LET beaconData      == ev.beaconData
      rssiHistory     == IF existing.present THEN existing.rssiHistory ELSE <<>>
      locationHistory == IF existing.present THEN existing.locationHistory ELSE <<>>
      sm              == smoothRSSI(ev.rssi, rssiHistory)
      lastPoint       == locationHistory[Len(locationHistory)]
      shouldAdd       ==
        \/ locationHistory = <<>>
        \/ calculateDistance(lastPoint.latitude, lastPoint.longitude,
                             beaconData.latitude, beaconData.longitude) > 5 * 100
      point           == [latitude |-> beaconData.latitude,
                          longitude |-> beaconData.longitude,
                          altitude |-> beaconData.altitudeMSL,
                          timestamp |-> ev.timestamp]
      updatedLocationHistory ==
        IF beaconData.flags.gpsValid /\ shouldAdd
          THEN PushCapped(locationHistory, point, LOCATION_HISTORY_MAX)
          ELSE locationHistory
      useCache        == /\ ~beaconData.flags.gpsValid
                         /\ existing.present
                         /\ existing.beaconData.flags.gpsValid
      finalBeaconData ==
        IF useCache
          THEN [beaconData EXCEPT !.latitude = existing.beaconData.latitude,
                                  !.longitude = existing.beaconData.longitude,
                                  !.altitudeMSL = existing.beaconData.altitudeMSL]
          ELSE beaconData
  IN [present |-> TRUE,
      id |-> beaconData.deviceId,
      beaconData |-> finalBeaconData,
      rssi |-> sm.smoothed,
      rawRssi |-> ev.rssi,
      lastSeen |-> ev.timestamp,
      rssiHistory |-> sm.newHistory,
      usingCachedGPS |-> useCache,
      locationHistory |-> updatedLocationHistory]

\* Map.set(id, beacon): an existing key keeps its place, a new one goes last.
SetBeacon(store, rec) ==
  LET k == IndexOfBeacon(store, rec.id)
  IN IF k = 0 THEN Append(store, rec) ELSE [store EXCEPT ![k] = rec]

\* clearStaleBeacons with the age compared by >= instead of >.
clearStaleBeaconsAtThreshold(store, t) ==
  LET fresh(b) == ~(t - b.lastSeen >= STALE_THRESHOLD_MS)
  IN SelectSeq(store, fresh)

\* clearStaleBeacons: the records it leaves in the store at time t.
clearStaleBeacons(store, t) ==
  LET fresh(b) == ~(t - b.lastSeen > STALE_THRESHOLD_MS)
  IN SelectSeq(store, fresh)

StoredIds(store) == {store[k].id : k \in 1..Len(store)}

NoBeacon == [present |-> FALSE]

\* BeaconScanner.updateState followed by notifyStateChange: the App's observer
\* copies getBeacons() into its list.
scannerUpdateState(st, err) ==
  /\ scannerStatus' = st
  /\ scannerError' = err
  /\ beacons' = getBeacons(beaconsFound)

\* App.requestPermissions: new BeaconScanner(), then BeaconScanner.initialize
\* (the permissions first, then the adapter state).  On success the App keeps
\* the scanner in scannerRef and registers its observer; on failure the
\* scanner, left in 'error', is dropped.
ScannerInitialize(granted, ble) ==
  /\ ~scannerRef
  /\ initCall' = [initCall EXCEPT !["scanner"] =
                    InitCall(IF granted THEN ble ELSE "none",
                             ~(granted /\ adapterReady(ble)))]
  /\ IF granted /\ adapterReady(ble)
       THEN /\ scannerStatus' = "idle"
            /\ scannerError' = "null"
            /\ scannerRef' = TRUE
       ELSE /\ scannerStatus' = "error"
            /\ scannerError' = "Initialization failed"
            /\ UNCHANGED scannerRef
  /\ UNCHANGED <<linkVars, startWarnings, pfVars, now, collectorVars, txVars, beaconsFound,
                 scanStartPending, scanStopPending, nativeScanning, pendingEvent, nEvents,
                 removedLog, lastFix, isScanning, beacons>>

\* App.startScanning -> BeaconScanner.startScanning up to its await: 'starting',
\* the observer notified, then the store cleared.
StartScanningBegin ==
  /\ scannerRef
  /\ ~scanStartPending
  /\ scannerStatus # "scanning"
  /\ scannerUpdateState("starting", "null")
  /\ beaconsFound' = <<>>
  /\ lastFix' = [d \in DOMAIN lastFix |-> NoFix]
  /\ scanStartPending' = TRUE
  /\ UNCHANGED <<linkVars, initVars, pfVars, now, collectorVars, txVars, scanStopPending, nativeScanning,
                 pendingEvent, nEvents, removedLog, isScanning>>

\* BLEBeaconScanner.startScanning settles.  Resolved: 'scanning', and the App
\* sets isScanning.  Rejected: 'error', rethrown to the App.
StartScanningAwait(ok) ==
  /\ scanStartPending
  /\ scanStartPending' = FALSE
  /\ IF ok
       THEN /\ nativeScanning' = TRUE
            /\ scannerUpdateState("scanning", "null")
            /\ isScanning' = TRUE
       ELSE /\ scannerUpdateState("error", "Failed to start")
            /\ UNCHANGED <<nativeScanning, isScanning>>
  /\ UNCHANGED <<linkVars, initVars, pfVars, now, collectorVars, txVars, beaconsFound, scanStopPending,
                 pendingEvent, nEvents, removedLog, lastFix>>

\* App.stopScanning -> BeaconScanner.stopScanning up to its await.
StopScanningBegin ==
  /\ ~scanStopPending
  /\ scannerStatus = "scanning"
  /\ scannerUpdateState("stopping", "null")
  /\ scanStopPending' = TRUE
  /\ UNCHANGED <<linkVars, initVars, pfVars, now, collectorVars, txVars, beaconsFound, scanStartPending,
                 nativeScanning, pendingEvent, nEvents, removedLog, lastFix,
                 isScanning>>

\* BLEBeaconScanner.stopScanning settles.  Resolved: 'idle', and the App clears
\* isScanning.  Rejected: 'error', rethrown to the App.
StopScanningAwait(ok) ==
  /\ scanStopPending
  /\ scanStopPending' = FALSE
  /\ IF ok
       THEN /\ nativeScanning' = FALSE
            /\ scannerUpdateState("idle", "null")
            /\ isScanning' = FALSE
       ELSE /\ scannerUpdateState("error", "Failed to stop")
            /\ UNCHANGED <<nativeScanning, isScanning>>
  /\ UNCHANGED <<linkVars, initVars, pfVars, now, collectorVars, txVars, beaconsFound, scanStartPending,
                 pendingEvent, nEvents, removedLog, lastFix>>

\* App.stopScanning while the scanner's status is not 'scanning':
\* BeaconScanner.stopScanning returns at once, and the App clears isScanning.
StopScanningNotScanning ==
  /\ scannerRef
  /\ ~scanStopPending
  /\ scannerStatus # "scanning"
  /\ isScanning' = FALSE
  /\ UNCHANGED <<linkVars, initVars, pfVars, now, collectorVars, txVars, scannerStatus,
                 scannerError, beaconsFound, scanStartPending, scanStopPending,
                 nativeScanning, pendingEvent, nEvents, removedLog, lastFix, beacons>>

\* The native central reports a scan failure (ScanCallback.onScanFailed): it
\* stops scanning and sends onScanningStateChange with the error, which the
\* listener set up in the constructor turns into updateState('error', ...).
ScanFailed(cause) ==
  /\ nativeScanning
  /\ nativeScanning' = FALSE
  /\ scannerUpdateState("error", cause)
  /\ UNCHANGED <<linkVars, initVars, pfVars, now, collectorVars, txVars, beaconsFound,
                 scanStartPending, scanStopPending, pendingEvent, nEvents, removedLog,
                 lastFix, isScanning>>

\* The native scanner sees an advertisement and raises the discovery event,
\* stamped with the current time.
RaiseBeaconDiscovered(data, rssi) ==
  /\ nativeScanning
  /\ ~pendingEvent.present
  /\ pendingEvent' = Event(data, rssi, now)
  /\ nEvents' = nEvents + 1
  /\ UNCHANGED <<linkVars, initVars, pfVars, now, collectorVars, txVars, scannerStatus, scannerError, beaconsFound,
                 scanStartPending, scanStopPending, nativeScanning, removedLog,
                 lastFix, isScanning, beacons>>

\* BeaconScanner.handleBeaconDiscovered on the event delivered.
HandleBeaconDiscovered ==
  /\ pendingEvent.present
  /\ LET id       == pendingEvent.beaconData.deviceId
         k        == IndexOfBeacon(beaconsFound, id)
         existing == IF k = 0 THEN NoBeacon ELSE beaconsFound[k]
         rec      == DiscoveredBeacon(pendingEvent, existing)
     IN /\ beaconsFound' = SetBeacon(beaconsFound, rec)
        /\ beacons' = getBeacons(beaconsFound')
        /\ lastFix' =
             IF pendingEvent.beaconData.flags.gpsValid
               THEN [lastFix EXCEPT ![id] =
                       [present |-> TRUE,
                        latitude |-> pendingEvent.beaconData.latitude,
                        longitude |-> pendingEvent.beaconData.longitude,
                        altitudeMSL |-> pendingEvent.beaconData.altitudeMSL]]
               ELSE lastFix
  /\ pendingEvent' = NoEvent
  /\ UNCHANGED <<linkVars, initVars, pfVars, now, collectorVars, txVars, scannerStatus, scannerError,
                 scanStartPending, scanStopPending, nativeScanning, nEvents,
                 removedLog, isScanning>>

\* The App's 1000 ms interval while isScanning: clearStaleBeacons (which
\* notifies the observer), then setBeacons(getBeacons()).
ReceiverTick ==
  /\ isScanning
  /\ beaconsFound' = clearStaleBeacons(beaconsFound, now)
  /\ removedLog' = StoredIds(beaconsFound) \ StoredIds(beaconsFound')
  /\ lastFix' = [d \in DOMAIN lastFix |->
                   IF d \in StoredIds(beaconsFound') THEN lastFix[d] ELSE NoFix]
  /\ beacons' = getBeacons(beaconsFound')
  /\ UNCHANGED <<linkVars, initVars, pfVars, now, collectorVars, txVars, scannerStatus, scannerError,
                 scanStartPending, scanStopPending, nativeScanning, pendingEvent,
                 nEvents, isScanning>>

RxDevices == {"a1b2c3d4", "0badf00d"}

\* The receiver after BeaconScanner.initialize has succeeded.
\* Nothing has been initialized, and nothing is on the air.
AppInit ==
  /\ air = [source |-> "none"]
  /\ nativeSeen = [source |-> "none"]
  /\ initCall = [c \in Components |-> NoInitCall]
  /\ scannerRef = FALSE
  /\ startWarnings = 0

\* The receiver App after its scanner's initialize has succeeded.
ScannerReady ==
  /\ air = [source |-> "none"]
  /\ nativeSeen = [source |-> "none"]
  /\ initCall = [c \in Components |->
                  IF c = "scanner" THEN InitCall("poweredOn", FALSE) ELSE NoInitCall]
  /\ scannerRef = TRUE
  /\ startWarnings = 0

RxInit ==
  /\ scannerStatus = "idle"
  /\ scannerError = "null"
  /\ beaconsFound = <<>>
  /\ scanStartPending = FALSE
  /\ scanStopPending = FALSE
  /\ nativeScanning = FALSE
  /\ pendingEvent = NoEvent
  /\ nEvents = 0
  /\ removedLog = {}
  /\ lastFix = [d \in RxDevices |-> NoFix]
  /\ isScanning = FALSE
  /\ beacons = <<>>

(***************************************************************************)
(* PrecisionFindingView (distances in millimetres)                         *)
(***************************************************************************)
BLE_TIMEOUT == 3000

DISTANCE_HISTORY_MAX == 10

\* HYSTERESIS = 0.15 m
HYSTERESIS == 150

\* Math.pow(10, (-59 - rssi) / 20) metres, to the millimetre, for rssi from
\* -40 dBm (first entry) down to -90 dBm (last entry).
PathLossTable ==
  << 112, 126, 141, 158, 178, 200, 224, 251, 282, 316, 355, 398, 447, 501, 562,
     631, 708, 794, 891, 1000, 1122, 1259, 1413, 1585, 1778, 1995, 2239, 2512,
     2818, 3162, 3548, 3981, 4467, 5012, 5623, 6310, 7079, 7943, 8913, 10000,
     11220, 12589, 14125, 15849, 17783, 19953, 22387, 25119, 28184, 31623, 35481 >>

pathLossDistance(rssi) == PathLossTable[Min(Len(PathLossTable), Max(1, -rssi - 39))]

\* PrecisionFindingView.calculateGPSDistance (the same Haversine), in mm.
calculateGPSDistance(lat1, lon1, lat2, lon2) ==
  10 * calculateDistance(lat1, lon1, lat2, lon2)

NoReceiverLocation == [present |-> FALSE]

ReceiverLocation(lat, lon) == [present |-> TRUE, latitude |-> lat, longitude |-> lon]

NoGPSDistance == [present |-> FALSE]

\* The beacon prop: the fields of the selected record the view reads.
BeaconProp(rssi, seen, hasData, lat, lon) ==
  [rssi |-> rssi, lastSeen |-> seen, hasData |-> hasData,
   latitude |-> lat, longitude |-> lon]

\* statePriority = { here: 0, near: 1, medium: 2, far: 3 }
statePriority(level) ==
  CASE level = "here" -> 0 [] level = "near" -> 1 [] level = "medium" -> 2
    [] OTHER -> 3

\* The natural level of the smoothed distance sum / n.
naturalLevel(sum, n) ==
  IF sum < 500 * n THEN "here"
  ELSE IF sum < 1500 * n THEN "near"
  ELSE IF sum < 5000 * n THEN "medium"
  ELSE "far"

\* The proximity level moving one level at a time towards the natural level.
newProximityLevelStepwise(currentLevel, sum, n) ==
  LET natural == naturalLevel(sum, n)
      cur     == statePriority(currentLevel)
      nat     == statePriority(natural)
      level(k) == CASE k = 0 -> "here" [] k = 1 -> "near" [] k = 2 -> "medium"
                    [] OTHER -> "far"
  IN IF nat < cur THEN level(cur - 1)
     ELSE IF nat > cur THEN level(cur + 1)
     ELSE natural

\* The proximity level with the 15 cm margin applied to both directions.
newProximityLevelBothWays(currentLevel, sum, n) ==
  LET natural         == naturalLevel(sum, n)
      currentPriority == IF statePriority(currentLevel) = 0 THEN 3
                         ELSE statePriority(currentLevel)
      naturalPriority == statePriority(natural)
  IN IF naturalPriority < currentPriority
       THEN IF \/ currentLevel = "near" /\ sum < (500 - HYSTERESIS) * n
               \/ currentLevel = "medium" /\ sum < (1500 - HYSTERESIS) * n
               \/ currentLevel = "far" /\ sum < (5000 - HYSTERESIS) * n
              THEN natural ELSE currentLevel
     ELSE IF naturalPriority > currentPriority
       THEN IF \/ currentLevel = "here" /\ sum >= (500 + HYSTERESIS) * n
               \/ currentLevel = "near" /\ sum >= (1500 + HYSTERESIS) * n
               \/ currentLevel = "medium" /\ sum >= (5000 + HYSTERESIS) * n
              THEN natural ELSE currentLevel
     ELSE natural

\* The proximity level the distance effect chooses.  currentPriority is
\* statePriority[currentLevel] || 3: the priority 0 of 'here' is falsy and
\* becomes 3.
newProximityLevel(currentLevel, sum, n) ==
  LET natural         == naturalLevel(sum, n)
      currentPriority == IF statePriority(currentLevel) = 0 THEN 3
                         ELSE statePriority(currentLevel)
      naturalPriority == statePriority(natural)
  IN IF naturalPriority < currentPriority THEN natural
     ELSE IF naturalPriority > currentPriority
       THEN IF \/ currentLevel = "here" /\ sum >= (500 + HYSTERESIS) * n
               \/ currentLevel = "near" /\ sum >= (1500 + HYSTERESIS) * n
               \/ currentLevel = "medium" /\ sum >= (5000 + HYSTERESIS) * n
              THEN natural ELSE currentLevel
     ELSE natural

\* The format of distanceText: 'Here', inches below 5 ft (1.524 m), feet with a
\* decimal below 100 ft (30.48 m), whole feet above.
distanceTextFormat(level, sum, n) ==
  IF level = "here" THEN "Here"
  ELSE IF sum < 1524 * n THEN "inches"
  ELSE IF sum < 30480 * n THEN "feet.1"
  ELSE "feet"

\* The haptic gate with the pulses of the 0.5 m .. 1.5 m band given below
\* 0.5 m as well.
vibrationDueWhenHere(sum, n, sinceLast) ==
  IF sum < 1500 * n THEN sinceLast >= 700
  ELSE IF sum < 3000 * n THEN (sinceLast - 1000) * 3 * n >= (sum - 1500 * n) * 2
  ELSE FALSE

\* now - lastVibrationTime >= vibrationInterval, with a positive interval:
\* 700 ms below 1.5 m, 1000 + (d - 1.5) / 1.5 * 1000 ms below 3 m.
vibrationDue(sum, n, sinceLast) ==
  IF sum < 500 * n THEN FALSE
  ELSE IF sum < 1500 * n THEN sinceLast >= 700
  ELSE IF sum < 3000 * n THEN (sinceLast - 1000) * 3 * n >= (sum - 1500 * n) * 2
  ELSE FALSE

\* The distance effect (it runs after a render in which beacon.rssi,
\* beacon.lastSeen, beacon.beaconData or receiverLocation changed) on the
\* props b and loc.
DistanceEffect(b, loc) ==
  LET timeSinceLastBeacon == now - b.lastSeen
      stale       == timeSinceLastBeacon > BLE_TIMEOUT
      gpsBranch   == stale /\ b.hasData /\ loc.present
      gpsDistance == calculateGPSDistance(loc.latitude, loc.longitude,
                                          b.latitude, b.longitude)
      previousDistance ==
        calculateGPSDistance(previousReceiverLocation.latitude,
                             previousReceiverLocation.longitude,
                             b.latitude, b.longitude)
      elapsed     == now - lastBeaconUpdate
      \* Math.max(0, gpsDistance - movementSpeed * 0.5); a zero elapsed time
      \* makes the speed infinite
      predicted   ==
        IF elapsed = 0 THEN 0
        ELSE Max(0, gpsDistance - RoundDiv((previousDistance - gpsDistance) * 500, elapsed))
      calculatedDistance ==
        IF gpsBranch
          THEN IF /\ lastGPSDistance.present
                  /\ previousReceiverLocation.present
                  /\ gpsDistance < previousDistance
                 THEN predicted
                 ELSE gpsDistance
          ELSE pathLossDistance(b.rssi)
      updatedHistory == PushCapped(distanceHistory, calculatedDistance,
                                   DISTANCE_HISTORY_MAX)
      sum   == SumSeq(updatedHistory)
      n     == Len(updatedHistory)
      level == newProximityLevel(lastProximityLevel, sum, n)
      due   == vibrationDue(sum, n, now - lastVibrationTime)
  IN /\ IF gpsBranch
          THEN /\ lastGPSDistance' = [present |-> TRUE, value |-> gpsDistance]
               /\ previousReceiverLocation' = loc
               /\ UNCHANGED lastBeaconUpdate
          ELSE /\ lastBeaconUpdate' = b.lastSeen
               /\ UNCHANGED <<lastGPSDistance, previousReceiverLocation>>
     /\ usingGPSFallback' = IF stale THEN TRUE
                            ELSE IF gpsBranch THEN usingGPSFallback ELSE FALSE
     /\ distanceHistory' = updatedHistory
     /\ distance' = [sum |-> sum, n |-> n]
     /\ distanceText' = distanceTextFormat(level, sum, n)
     /\ proximityLevel' = level
     /\ vibration' = IF ~due THEN "none"
                     ELSE IF sum < 1500 * n THEN "double" ELSE "single"
     /\ lastVibrationTime' = IF due THEN now ELSE lastVibrationTime
     /\ lastProximityLevel' = level
     /\ nTicks' = nTicks + 1
     /\ distanceSetAt' = now

\* Degrees are kept in sixtieths, so that the mean of up to five whole-degree
\* headings is exact.
Deg == 60

FullCircle == 360 * Deg

\* DEADZONE = 5 degrees
DEADZONE == 5 * Deg

MAX_COMPASS_HISTORY == 5

\* PrecisionFindingView.calculateBearing: atan2(y, x) in degrees, normalized
\* to 0..360.  Within 0.01 degree of the equator y is dLon and x is dLat to
\* well under a sixtieth of a degree; the model keeps the receiver on one of
\* the eight compass directions from the beacon (or on it: atan2(0, 0) = 0).
calculateBearing(lat1, lon1, lat2, lon2) ==
  LET dLat == lat2 - lat1
      dLon == lon2 - lon1
  IN CASE dLon = 0 /\ dLat >= 0    -> 0
       [] dLon > 0 /\ dLat = dLon  -> 45 * Deg
       [] dLon > 0 /\ dLat = 0     -> 90 * Deg
       [] dLon > 0 /\ dLat = -dLon -> 135 * Deg
       [] dLon = 0 /\ dLat < 0     -> 180 * Deg
       [] dLon < 0 /\ dLat = dLon  -> 225 * Deg
       [] dLon < 0 /\ dLat = 0     -> 270 * Deg
       [] dLon < 0 /\ dLat = -dLon -> 315 * Deg

\* Math.min(bearingDiff, 360 - bearingDiff)
normalizedDiff(relativeBearing, last) ==
  Min(Abs(relativeBearing - last), FullCircle - Abs(relativeBearing - last))

\* The bearing effect (it runs after a render in which beacon.beaconData,
\* receiverLocation, compassHeading, distance or useFineTuning changed) on the
\* props b and loc, the heading and the distance of that render.  A run
\* repeated on the same props leaves bearing and lastBearing as the first run
\* set them, so the runs that one commit sets off are one run here.
BearingEffect(b, loc, heading, dist) ==
  IF b.hasData /\ loc.present
    THEN LET absoluteBearing == calculateBearing(loc.latitude, loc.longitude,
                                                 b.latitude, b.longitude)
             relativeBearing == (absoluteBearing - heading + FullCircle) % FullCircle
         IN /\ useFineTuning' = (dist.sum < 1500 * dist.n)
            /\ IF \/ normalizedDiff(relativeBearing, lastBearing) > DEADZONE
                  \/ lastBearing = 0
                 THEN /\ bearing' = relativeBearing
                      /\ lastBearing' = relativeBearing
                 ELSE UNCHANGED <<bearing, lastBearing>>
            /\ hasLocation' = TRUE
    ELSE /\ hasLocation' = FALSE
         /\ UNCHANGED <<bearing, lastBearing, useFineTuning>>

\* The view is mounted: the first run of the distance and bearing effects.
PfMount ==
  /\ ~mounted
  /\ mounted' = TRUE
  /\ DistanceEffect(beacon, receiverLocation)
  /\ BearingEffect(beacon, receiverLocation, compassHeading, distance')
  /\ UNCHANGED <<linkVars, initVars, now, collectorVars, txVars, rxVars, beacon, receiverLocation,
                 sampleAt, compassHeading, compassHistory>>

\* The parent re-renders the view with the record of a new advertisement.
PfBeaconSeen(rssi) ==
  /\ mounted
  /\ beacon' = [beacon EXCEPT !.rssi = rssi, !.lastSeen = now]
  /\ DistanceEffect(beacon', receiverLocation)
  /\ BearingEffect(beacon', receiverLocation, compassHeading, distance')
  /\ UNCHANGED <<linkVars, initVars, now, collectorVars, txVars, rxVars, receiverLocation, mounted,
                 sampleAt, compassHeading, compassHistory>>

\* setReceiverLocation with no run of the distance effect after it.
PfReceiverLocationNoEffect(loc) ==
  /\ mounted
  /\ receiverLocation' = loc
  /\ sampleAt' = now
  /\ UNCHANGED <<linkVars, initVars, now, collectorVars, txVars, rxVars, beacon, mounted,
                 distanceHistory, distance, distanceText, proximityLevel,
                 lastProximityLevel, usingGPSFallback, lastVibrationTime, vibration,
                 lastBeaconUpdate, lastGPSDistance, previousReceiverLocation, nTicks,
                 distanceSetAt, bearing, lastBearing, compassHeading, compassHistory,
                 hasLocation, useFineTuning>>

\* The location watch delivers a receiver fix: setReceiverLocation.
PfReceiverLocation(loc) ==
  /\ mounted
  /\ receiverLocation' = loc
  /\ sampleAt' = now
  /\ DistanceEffect(beacon, loc)
  /\ BearingEffect(beacon, loc, compassHeading, distance')
  /\ UNCHANGED <<linkVars, initVars, now, collectorVars, txVars, rxVars, beacon, mounted,
                 compassHeading, compassHistory>>

\* The heading watch delivers a compass heading: the mean of the last five
\* goes to setCompassHeading.
PfHeading(trueHeading) ==
  /\ mounted
  /\ compassHistory' = PushCapped(compassHistory, trueHeading, MAX_COMPASS_HISTORY)
  /\ compassHeading' = SumSeq(compassHistory') \div Len(compassHistory')
  /\ BearingEffect(beacon, receiverLocation, compassHeading', distance)
  /\ UNCHANGED <<linkVars, initVars, now, collectorVars, txVars, rxVars, beacon,
                 receiverLocation, distanceHistory, distance, distanceText,
                 proximityLevel, lastProximityLevel, usingGPSFallback,
                 lastVibrationTime, vibration, lastBeaconUpdate, lastGPSDistance,
                 previousReceiverLocation, mounted, nTicks, distanceSetAt, sampleAt>>

\* The interval's prediction: movementSpeed = (previousDistance - gpsDistance)
\* / 0.25, and Math.max(0, gpsDistance - movementSpeed * 0.125).
predictedDistance(gpsDistance, previousDistance) ==
  IF gpsDistance < previousDistance
    THEN Max(0, gpsDistance - RoundDiv(previousDistance - gpsDistance, 2))
    ELSE gpsDistance

\* The GPS-fallback effect keeps a 250 ms interval armed while
\* usingGPSFallback, beacon.beaconData and receiverLocation are all set (it is
\* re-armed whenever one of them changes).
GpsIntervalArmed ==
  mounted /\ usingGPSFallback /\ beacon.hasData /\ receiverLocation.present

\* The interval fires.
GpsIntervalTick ==
  /\ GpsIntervalArmed
  /\ LET gpsDistance == calculateGPSDistance(receiverLocation.latitude,
                                             receiverLocation.longitude,
                                             beacon.latitude, beacon.longitude)
         previousDistance ==
           calculateGPSDistance(previousReceiverLocation.latitude,
                                previousReceiverLocation.longitude,
                                beacon.latitude, beacon.longitude)
     IN IF lastGPSDistance.present /\ previousReceiverLocation.present
          THEN /\ distance' = [sum |-> predictedDistance(gpsDistance, previousDistance),
                               n |-> 1]
               /\ distanceSetAt' = now
               /\ lastGPSDistance' = [present |-> TRUE, value |-> gpsDistance]
               /\ previousReceiverLocation' = receiverLocation
          ELSE UNCHANGED <<distance, distanceSetAt, lastGPSDistance,
                           previousReceiverLocation>>
  /\ BearingEffect(beacon, receiverLocation, compassHeading, distance')
  /\ UNCHANGED <<linkVars, initVars, now, collectorVars, txVars, rxVars, beacon, receiverLocation,
                 distanceHistory, distanceText, proximityLevel, lastProximityLevel,
                 usingGPSFallback, lastVibrationTime, vibration, lastBeaconUpdate,
                 mounted, nTicks, sampleAt, compassHeading, compassHistory>>

\* The view before it is mounted on a record that has coordinates, seen at
\* time `seen` with smoothed RSSI `rssi`.
PfInitOn(rssi, seen) ==
  /\ beacon = BeaconProp(rssi, seen, TRUE, 10, 20)
  /\ receiverLocation = NoReceiverLocation
  /\ distanceHistory = <<>>
  /\ distance = [sum |-> 0, n |-> 1]
  /\ distanceText = ""
  /\ proximityLevel = "far"
  /\ lastProximityLevel = "far"
  /\ usingGPSFallback = FALSE
  /\ lastVibrationTime = 0
  /\ vibration = "none"
  /\ lastBeaconUpdate = now
  /\ lastGPSDistance = NoGPSDistance
  /\ previousReceiverLocation = NoReceiverLocation
  /\ mounted = FALSE
  /\ nTicks = 0
  /\ distanceSetAt = 0
  /\ sampleAt = 0
  /\ bearing = 0
  /\ lastBearing = 0
  /\ compassHeading = 0
  /\ compassHistory = <<>>
  /\ hasLocation = FALSE
  /\ useFineTuning = FALSE

PfInit == PfInitOn(-59, now)

(***************************************************************************)
(* Bounds of the emitter sensor-fusion model                               *)
(***************************************************************************)
MaxCollect == 4

MaxElapsed == 130000

EpochMs == 1000

ClockSteps == {20000, 39999}

RestSq == 100 * 100

\* Acceleration windows a collector that has only seen a resting device holds.
FallInitHistories ==
  { <<>>,
    <<RestSq, RestSq, RestSq, RestSq>>,
    <<RestSq, RestSq, RestSq, RestSq, RestSq, RestSq, RestSq, RestSq, RestSq>> }

\* flat at rest, free fall, impact, upright at rest, and no accelerometer
FallAccels ==
  { NoVec, Vec(0, 0, 100), Vec(0, 0, 20), Vec(0, 0, 300), Vec(100, 0, 0) }

FallSnapshots ==
  { Snapshot(NoLocation, a, NoVec, NoAltimeter, 800, FALSE) : a \in FallAccels }

(***************************************************************************)
(* Actions of the emitter sensor fusion                                    *)
(***************************************************************************)
\* One collectData call on snapshot s at the current time.
CollectData(s) ==
  /\ nCollect < MaxCollect
  /\ LET r == collectData(s, now, bootTime, startAltitude, accelerationHistory,
                          gyroscopeHistory, fallDetectedTime)
     IN /\ lastInput' = r.input
        /\ lastReading' = s.accelerometer
        /\ accelerationHistory' = r.accelerationHistory
        /\ fallDetectedTime' = r.fallDetectedTime
        /\ gyroscopeHistory' = r.gyroscopeHistory
  /\ collectedAt' = now
  /\ nCollect' = nCollect + 1
  /\ UNCHANGED <<linkVars, initVars, pfVars, rxVars, now, bootTime, startAltitude, txVars>>

\* The wall clock moves on.
AdvanceClock(dt) ==
  /\ now + dt <= EpochMs + MaxElapsed
  /\ now' = now + dt
  /\ UNCHANGED <<linkVars, initVars, collectorVars, txVars, rxVars, pfVars>>

CollectorInit ==
  /\ bootTime = EpochMs
  /\ startAltitude = 0
  /\ gyroscopeHistory = <<>>
  /\ fallDetectedTime = 0
  /\ lastInput = NoInput
  /\ lastReading = NoVec
  /\ collectedAt = 0
  /\ nCollect = 0

FallInit ==
  /\ now = EpochMs
  /\ AppInit
  /\ RxInit
  /\ PfInit
  /\ CollectorInit
  /\ TxInit
  /\ accelerationHistory \in FallInitHistories

FallCollect == \E s \in FallSnapshots : CollectData(s)

FallClock == \E dt \in ClockSteps : AdvanceClock(dt)

FallNext == FallCollect \/ FallClock

SpecFall == FallInit /\ [][FallNext]_vars

(***************************************************************************)
(* C1 (fall latch): once collectData has returned fallDetected = TRUE at   *)
(* time t0 (the detection recorded in fallDetectedTime), every collectData *)
(* call made at a time t with t0 <= t < t0 + 60000 returns fallDetected =  *)
(* TRUE, whatever the snapshot holds.                                      *)
(***************************************************************************)
C1_FallLatch ==
  ( /\ nCollect > 0
    /\ fallDetectedTime > 0
    /\ collectedAt >= fallDetectedTime
    /\ collectedAt - fallDetectedTime < FALL_COOLDOWN_MS )
  => lastInput.fallDetected

(***************************************************************************)
(* The transmitter under any interleaving of its entry points              *)
(***************************************************************************)
TxSpecInit ==
  /\ now = EpochMs
  /\ AppInit
  /\ RxInit
  /\ PfInit
  /\ CollectorInit
  /\ accelerationHistory = <<>>
  /\ TxInit

TxInitialize ==
  \E ble \in BleStates, granted \in BOOLEAN, s \in TxSnapshots : Initialize(ble, granted, s)

TxStartSensor == \E ok \in BOOLEAN : StartSensor(ok)

TxTimerFire == \E i \in TxSlots : TimerFire(i)

TxCollectStep == \E i \in TxSlots, s \in TxSnapshots, ok \in BOOLEAN : TxCollect(i, s, ok)

TxPeripheralStopStep == \E i \in TxSlots : TxPeripheralStop(i)

TxPeripheralStartStep ==
  \E i \in TxSlots, ok \in BOOLEAN :
    /\ ok => transmissionCount < MaxTransmissions
    /\ TxPeripheralStart(i, ok)

TxStopAwait == \E ok \in BOOLEAN : StopAwait(ok)

TxNext ==
  \/ TxInitialize
  \/ StartBegin
  \/ TxStartSensor
  \/ StartFinish
  \/ TxTimerFire
  \/ TxCollectStep
  \/ TxPeripheralStopStep
  \/ TxPeripheralStartStep
  \/ StopBegin
  \/ TxStopAwait

SpecTx == TxSpecInit /\ [][TxNext]_vars

(***************************************************************************)
(* C2: a transmitBeacon invocation that was in flight when stopAdvertising *)
(* was invoked on an advertising transmitter is a no-op: it neither calls  *)
(* the peripheral's startAdvertising nor arms a tick timer.                *)
(***************************************************************************)
C2_StaleTickNoOp == staleEffects = {}

(***************************************************************************)
(* Steps of the transmitter the properties below speak about               *)
(***************************************************************************)
\* The step on which an invocation of stopAdvertising returns or throws.
StopEnds == stopPc # 0 /\ stopPc' = 0

\* The step on which the peripheral refuses the hand-off of invocation i.
Refused(i) ==
  /\ tx[i].pc = "pstart"
  /\ tx'[i].pc # "pstart"
  /\ transmissionCount' = transmissionCount

StopIndex(call) == CHOOSE k \in 1..Len(StopCalls) : StopCalls[k] = call

(***************************************************************************)
(* C3 as stated: stopAdvertising invoked while advertising always ends     *)
(* with status idle, the tick timer cancelled, and the peripheral stop and *)
(* all four sensor-stream stops attempted, even when a stop call fails.    *)
(***************************************************************************)
C3_StopAlwaysIdle ==
  [][StopEnds => /\ status' = "idle"
                 /\ stopLog'.timerCleared
                 /\ stopLog'.attempted = StopsUpTo(Len(StopCalls))]_vars

(***************************************************************************)
(* C3 as amended: stopAdvertising invoked while advertising cancels the    *)
(* tick timer it holds and attempts the peripheral stop; it ends with      *)
(* status idle and all five stops attempted only when every stop call      *)
(* succeeds; the first stop call that fails ends it with status error and  *)
(* the error "Failed to stop", the stops after the failing one not         *)
(* attempted.                                                              *)
(***************************************************************************)
C3_StopEndsIdleOrError ==
  [][StopEnds =>
       /\ stopLog'.timerCleared
       /\ "peripheral" \in stopLog'.attempted
       /\ \/ /\ stopLog'.failed = "none"
             /\ status' = "idle"
             /\ stopLog'.attempted = StopsUpTo(Len(StopCalls))
          \/ /\ stopLog'.failed # "none"
             /\ status' = "error"
             /\ stateError' = "Failed to stop"
             /\ observed'.status = "error"
             /\ stopLog'.attempted = StopsUpTo(StopIndex(stopLog'.failed))]_vars

\* A sensor stop has failed: the transmitter is in error, a later stream never
\* asked to stop.
C3_Witness ==
  /\ stopPc = 0
  /\ stopLog.failed = "location"
  /\ status = "error"
  /\ "altimeter" \notin stopLog.attempted
  /\ "altimeter" \in sensorStreams

(***************************************************************************)
(* C9: under any interleaving of startAdvertising, stopAdvertising and     *)
(* tick callbacks the status changes only along idle->starting,            *)
(* starting->advertising, advertising->stopping, stopping->idle,           *)
(* any->error and error->idle.                                             *)
(***************************************************************************)
AllowedEdges ==
  { <<"idle", "starting">>, <<"starting", "advertising">>,
    <<"advertising", "stopping">>, <<"stopping", "idle">>, <<"error", "idle">> }

C9_StatusEdges ==
  [][status' # status =>
       (<<status, status'>> \in AllowedEdges \/ status' = "error")]_vars

CadenceBatteries == {0, 5, 9, 10, 11, 19, 20, 50, 100}

\* calculateAdaptiveInterval takes any payload (data: any): every combination
\* of the five flags it reads and the battery percentage.
CadenceInputs ==
  { [NoInput EXCEPT !.sosActivated = sos, !.fallDetected = fall,
                    !.unstableEnvironment = unst, !.lowBattery = low,
                    !.motionDetected = motion, !.stationary = ~motion,
                    !.battery = b] :
      sos \in BOOLEAN, fall \in BOOLEAN, unst \in BOOLEAN, low \in BOOLEAN,
      motion \in BOOLEAN, b \in CadenceBatteries }

\* startAdvertising awaiting the peripheral's answer to its first hand-off.
CadenceInit ==
  /\ now = EpochMs
  /\ AppInit
  /\ RxInit
  /\ PfInit
  /\ bootTime = EpochMs
  /\ startAltitude = 0
  /\ accelerationHistory = <<>>
  /\ gyroscopeHistory = <<>>
  /\ fallDetectedTime = 0
  /\ collectedAt = EpochMs
  /\ lastReading = NoVec
  /\ nCollect = 0
  /\ \E data \in CadenceInputs :
        /\ lastInput = data
        /\ tx = [i \in TxSlots |->
                   IF i = 0 THEN [pc |-> "pstart", input |-> data, stale |-> FALSE]
                   ELSE NoTx]
  /\ dataCollector = TRUE
  /\ status = "starting"
  /\ stateError = "null"
  /\ lastTransmission = 0
  /\ transmissionCount = 0
  /\ advertisingInterval = 0
  /\ timers = {}
  /\ observed = [status |-> "starting", error |-> "null", lastTransmission |-> 0,
                 transmissionCount |-> 0]
  /\ startPc = 5
  /\ stopPc = 0
  /\ stopLog = NoStopLog
  /\ staleEffects = {}
  /\ peripheral = [advertising |-> FALSE, data |-> NoPacket]
  /\ sensorStreams = {SensorNames[k] : k \in 1..Len(SensorNames)}

CadenceHandOff ==
  \E ok \in BOOLEAN :
    /\ ok => transmissionCount < MaxTransmissions
    /\ TxPeripheralStart(0, ok)

CadenceNext == CadenceHandOff \/ StartFinish

SpecCadence == CadenceInit /\ [][CadenceNext]_vars

MaxEvents == 3

MaxRxElapsed == 60001

\* Two fixes some 85 m apart and the payload of an emitter without a fix.
RxPayloads ==
  { Payload(d, p[1], p[2], p[3], p[4]) :
      d \in RxDevices,
      p \in { <<10, 20, 120, TRUE>>, <<110, 20, 95, TRUE>>, <<0, 0, 0, FALSE>> } }

RxRssis == {-60}

RxClockSteps == {30000, 30001}

RxSpecInit ==
  /\ now = EpochMs
  /\ ScannerReady
  /\ CollectorInit
  /\ accelerationHistory = <<>>
  /\ TxInit
  /\ RxInit
  /\ PfInit

RxStartScanningAwait == \E ok \in BOOLEAN : StartScanningAwait(ok)

RxRaise ==
  /\ nEvents < MaxEvents
  /\ \E data \in RxPayloads, rssi \in RxRssis : RaiseBeaconDiscovered(data, rssi)

RxClock ==
  \E dt \in RxClockSteps : now + dt <= EpochMs + MaxRxElapsed /\ AdvanceClock(dt)

RxNext ==
  \/ StartScanningBegin
  \/ RxStartScanningAwait
  \/ RxRaise
  \/ HandleBeaconDiscovered
  \/ ReceiverTick
  \/ RxClock

SpecRx == RxSpecInit /\ [][RxNext]_vars

(***************************************************************************)
(* C4 (cached GPS): for a device whose record has stored a gps-valid       *)
(* payload, the record's latitude, longitude and altitudeMSL are those of  *)
(* the most recent gps-valid payload; usingCachedGPS is TRUE after a       *)
(* gps-invalid payload and FALSE after a gps-valid one.                    *)
(***************************************************************************)
C4_CachedGps ==
  \A k \in 1..Len(beaconsFound) :
    LET b   == beaconsFound[k]
        fix == lastFix[b.id]
    IN fix.present =>
         /\ b.beaconData.latitude = fix.latitude
         /\ b.beaconData.longitude = fix.longitude
         /\ b.beaconData.altitudeMSL = fix.altitudeMSL
         /\ b.usingCachedGPS = ~b.beaconData.flags.gpsValid

(***************************************************************************)
(* C8 (stale eviction): after clearStaleBeacons has run at time now the    *)
(* store holds no record with now - lastSeen > 60000, and every record     *)
(* that had now - lastSeen <= 60000 is still there, unchanged.             *)
(***************************************************************************)
C8_StaleEviction ==
  [][ReceiverTick =>
       /\ \A k \in 1..Len(beaconsFound') : now - beaconsFound'[k].lastSeen <= 60000
       /\ \A k \in 1..Len(beaconsFound) :
            now - beaconsFound[k].lastSeen <= 60000 =>
              \E j \in 1..Len(beaconsFound') : beaconsFound'[j] = beaconsFound[k]]_vars

\* A tick has removed one record and kept another.
C8_Witness ==
  /\ removedLog # {}
  /\ beaconsFound # <<>>
  /\ \A k \in 1..Len(beaconsFound) : now - beaconsFound[k].lastSeen <= 60000

(***************************************************************************)
(* The precision finder on a selected record                               *)
(***************************************************************************)
MaxPfTicks == 3

MaxPfElapsed == 6002

\* 0.45 m, 0.63 m, 1.00 m, 1.78 m, 2.24 m and 5.62 m by path loss
PfRssis == {-52, -55, -59, -64, -66, -74}

\* fixes 0.85 m and 1.70 m north of the beacon's coordinates
PfLocations == {ReceiverLocation(11, 20), ReceiverLocation(12, 20)}

PfClockSteps == {3001}

PfSpecInit ==
  /\ now = EpochMs
  /\ ScannerReady
  /\ CollectorInit
  /\ accelerationHistory = <<>>
  /\ TxInit
  /\ RxInit
  /\ \E rssi \in PfRssis, age \in {0, 5000} : PfInitOn(rssi, now - age)

PfBeaconSeenStep ==
  /\ nTicks < MaxPfTicks
  /\ \E rssi \in PfRssis : PfBeaconSeen(rssi)

PfReceiverLocationStep ==
  /\ nTicks < MaxPfTicks
  /\ \E loc \in PfLocations : PfReceiverLocation(loc)

PfClock ==
  \E dt \in PfClockSteps : now + dt <= EpochMs + MaxPfElapsed /\ AdvanceClock(dt)

PfNext ==
  \/ PfMount
  \/ PfBeaconSeenStep
  \/ PfReceiverLocationStep
  \/ PfClock

SpecPF == PfSpecInit /\ [][PfNext]_vars

\* The levels from closest to farthest, and the place of a level among them.
LevelOrder == <<"here", "near", "medium", "far">>

RankOf(level) == CHOOSE k \in 1..Len(LevelOrder) : LevelOrder[k] = level

\* The natural level of a smoothed distance of sum / n millimetres.
NaturalOf(sum, n) ==
  IF sum < 500 * n THEN "here"
  ELSE IF sum < 1500 * n THEN "near"
  ELSE IF sum < 5000 * n THEN "medium"
  ELSE "far"

\* The threshold (mm) bounding a level from above.
UpperThreshold(level) ==
  CASE level = "here" -> 500 [] level = "near" -> 1500 [] OTHER -> 5000

\* A step on which the distance effect runs.
PfTick == nTicks' = nTicks + 1

(***************************************************************************)
(* C5 (hysteresis when moving away): on a tick where the natural level of  *)
(* the smoothed distance is farther than the current level, the level      *)
(* changes only if the smoothed distance is at least T + 0.15 m, T the     *)
(* threshold bounding the current level from above (0.5 m here, 1.5 m      *)
(* near, 5 m medium); otherwise the current level is kept.                 *)
(***************************************************************************)
C5_Hysteresis ==
  [][PfTick =>
       LET cur == lastProximityLevel
           sum == distance'.sum
           n   == distance'.n
       IN RankOf(NaturalOf(sum, n)) > RankOf(cur) =>
            \/ sum >= (UpperThreshold(cur) + 150) * n
            \/ proximityLevel' = cur]_vars

(***************************************************************************)
(* C6 (no hysteresis when closing): on a tick where the natural level of   *)
(* the smoothed distance is closer than the current level, the proximity   *)
(* level becomes the natural level on that tick.                           *)
(***************************************************************************)
C6_InstantWhenCloser ==
  [][PfTick =>
       LET cur == lastProximityLevel
           nat == NaturalOf(distance'.sum, distance'.n)
       IN RankOf(nat) < RankOf(cur) =>
            /\ proximityLevel' = nat
            /\ lastProximityLevel' = nat]_vars

\* Medium after a first sample between 1.5 m and 5 m, then near on the tick
\* that brought the mean below 1.5 m.
C6_Witness ==
  /\ Len(distanceHistory) = 2
  /\ distanceHistory[1] >= 1500
  /\ distanceHistory[1] < 5000
  /\ distance.sum < 1500 * distance.n
  /\ proximityLevel = "near"

(***************************************************************************)
(* The receiver from a running scan to its stop: discovery events still on *)
(* their way when stopScanning is invoked                                  *)
(***************************************************************************)
\* The scanner after startScanning has resolved, for the device ids on the air.
RxScanningInitOn(devices) ==
  /\ now = EpochMs
  /\ ScannerReady
  /\ CollectorInit
  /\ accelerationHistory = <<>>
  /\ TxInit
  /\ PfInit
  /\ scannerStatus = "scanning"
  /\ scannerError = "null"
  /\ beaconsFound = <<>>
  /\ scanStartPending = FALSE
  /\ scanStopPending = FALSE
  /\ nativeScanning = TRUE
  /\ pendingEvent = NoEvent
  /\ nEvents = 0
  /\ removedLog = {}
  /\ lastFix = [d \in devices |-> NoFix]
  /\ isScanning = TRUE
  /\ beacons = <<>>

RxScanningInit == RxScanningInitOn(RxDevices)

RxStopScanningAwait == \E ok \in BOOLEAN : StopScanningAwait(ok)

RxStopNext ==
  \/ RxRaise
  \/ HandleBeaconDiscovered
  \/ StopScanningBegin
  \/ RxStopScanningAwait
  \/ ReceiverTick
  \/ RxClock

SpecRxStop == RxScanningInit /\ [][RxStopNext]_vars

\* The step on which handleBeaconDiscovered runs on the pending event.
Delivered == pendingEvent.present /\ ~pendingEvent'.present

(***************************************************************************)
(* C11: a beacon-discovered callback delivered while the scanner status is *)
(* not scanning is a no-op: it creates no record and changes no record of  *)
(* beaconsFound.                                                           *)
(***************************************************************************)
C11_CallbackAfterStopNoOp ==
  [][(Delivered /\ scannerStatus # "scanning") => beaconsFound' = beaconsFound]_vars

(***************************************************************************)
(* Receiver ingress on payloads that decode but lie outside the protocol's *)
(* ranges                                                                  *)
(***************************************************************************)
\* One degree of latitude or longitude in the model's unit.
UnitsPerDegree == 131072

\* decodeBeaconData's result with the battery byte kept.
BeaconData(id, lat, lon, alt, bat, valid) ==
  [deviceId |-> id, latitude |-> lat, longitude |-> lon, altitudeMSL |-> alt,
   battery |-> bat, flags |-> [gpsValid |-> valid]]

\* isValidBeaconPacket on a packet of PACKET_SIZE bytes, by what it decodes to.
isValidBeaconPacket(data) ==
  /\ ~(data.latitude < -90 * UnitsPerDegree \/ data.latitude > 90 * UnitsPerDegree)
  /\ ~(data.longitude < -180 * UnitsPerDegree \/ data.longitude > 180 * UnitsPerDegree)
  /\ ~(data.battery < 0 \/ data.battery > 100)
  /\ ~(data.altitudeMSL < -500 \/ data.altitudeMSL > 9000)

\* Advertisements on the air: in range, and one out of range in each field
\* (those out of range in latitude or longitude carry gpsValid clear).
IngressPayloads ==
  { BeaconData(id, f[1], f[2], f[3], f[4], f[5]) :
      id \in RxDevices,
      f \in { <<10, 20, 120, 80, TRUE>>,
              <<110, 20, 95, 101, TRUE>>,
              <<110, 20, 9001, 80, TRUE>>,
              <<110, 20, -501, 80, TRUE>>,
              <<90 * UnitsPerDegree + 1, 20, 95, 80, FALSE>>,
              <<110, -180 * UnitsPerDegree - 1, 95, 80, FALSE>> } }

IngressRaise ==
  /\ nEvents < MaxEvents
  /\ \E data \in IngressPayloads, rssi \in RxRssis : RaiseBeaconDiscovered(data, rssi)

IngressNext ==
  \/ IngressRaise
  \/ HandleBeaconDiscovered
  \/ ReceiverTick
  \/ RxClock

SpecIngress == RxScanningInit /\ [][IngressNext]_vars

(***************************************************************************)
(* C12: receiver ingress drops every advertisement whose decoded payload   *)
(* fails validation (latitude outside [-90, 90], longitude outside         *)
(* [-180, 180], battery > 100, altitudeMSL outside [-500, 9000]): it       *)
(* creates no record and leaves the device's existing record unchanged.    *)
(***************************************************************************)
C12_InvalidPayloadDropped ==
  [][(Delivered /\ ~isValidBeaconPacket(pendingEvent.beaconData))
       => beaconsFound' = beaconsFound]_vars

(***************************************************************************)
(* Initialization of the transmitter and of the scanner against the        *)
(* platform adapter's state                                                *)
(***************************************************************************)
InitializeInit ==
  /\ now = EpochMs
  /\ AppInit
  /\ RxInit
  /\ PfInit
  /\ CollectorInit
  /\ accelerationHistory = <<>>
  /\ TxInit

ScannerInitializeStep ==
  \E granted \in BOOLEAN, ble \in BleStates : ScannerInitialize(granted, ble)

InitializeNext ==
  \/ TxInitialize
  \/ ScannerInitializeStep
  \/ StartBegin
  \/ TxStartSensor
  \/ StartScanningBegin
  \/ RxStartScanningAwait
  \/ StopScanningBegin
  \/ RxStopScanningAwait

SpecInitialize == InitializeInit /\ [][InitializeNext]_vars

\* The step on which component c's initialize call ends having been told an
\* adapter state other than poweredOn.
InitializedNotPoweredOn(c) ==
  /\ initCall'[c] # initCall[c]
  /\ initCall'[c].state \notin {"poweredOn", "none"}

\* Nothing of the emitter is started by the step.
TransmitterNotStarted ==
  /\ ~dataCollector'
  /\ startPc' = 0
  /\ peripheral' = peripheral /\ ~peripheral'.advertising
  /\ timers' = timers /\ timers' = {}
  /\ sensorStreams' = sensorStreams

\* Nothing of the receiver is started by the step.
ScannerNotStarted ==
  /\ ~scannerRef'
  /\ ~scanStartPending'
  /\ ~nativeScanning'
  /\ ~isScanning'

(***************************************************************************)
(* C13 as stated: if the adapter reports a state other than poweredOn when *)
(* BeaconTransmitter.initialize or BeaconScanner.initialize runs, the call *)
(* fails, no advertising or scanning is started, and the component's       *)
(* status stays idle.                                                      *)
(***************************************************************************)
C13_NotPoweredOnStaysIdle ==
  [][/\ InitializedNotPoweredOn("transmitter")
         => initCall'["transmitter"].rejected /\ TransmitterNotStarted /\ status' = "idle"
     /\ InitializedNotPoweredOn("scanner")
         => initCall'["scanner"].rejected /\ ScannerNotStarted /\ scannerStatus' = "idle"]_vars

(***************************************************************************)
(* C13 amended: if the adapter reports a state other than poweredOn when   *)
(* BeaconTransmitter.initialize or BeaconScanner.initialize runs, the call *)
(* fails, no advertising or scanning is started, and the component's       *)
(* status becomes error with the error 'Initialization failed ...'.        *)
(***************************************************************************)
C13_NotPoweredOnEntersError ==
  [][/\ InitializedNotPoweredOn("transmitter")
         => /\ initCall'["transmitter"].rejected
            /\ TransmitterNotStarted
            /\ status' = "error" /\ stateError' = "Initialization failed"
     /\ InitializedNotPoweredOn("scanner")
         => /\ initCall'["scanner"].rejected
            /\ ScannerNotStarted
            /\ scannerStatus' = "error" /\ scannerError' = "Initialization failed"]_vars

\* Both components have had an initialize call fail on an adapter that was not
\* powered on, and both are in 'error' with nothing started.
C13_Witness ==
  /\ initCall["transmitter"] = InitCall("poweredOff", TRUE)
  /\ initCall["scanner"] = InitCall("unauthorized", TRUE)
  /\ status = "error" /\ ~dataCollector /\ ~peripheral.advertising
  /\ scannerStatus = "error" /\ ~scannerRef /\ ~nativeScanning

(***************************************************************************)
(* The radio link: the packet's bytes, the manufacturer data the emitter's *)
(* native module builds around them, and the receiver's native parsers     *)
(***************************************************************************)
HexDigits == <<"0", "1", "2", "3", "4", "5", "6", "7",
               "8", "9", "A", "B", "C", "D", "E", "F">>

HexValue(c) == (CHOOSE k \in 1..16 : HexDigits[k] = c) - 1

\* bufferToHex / String(format: "%02X") joined: two digits a byte.
ToHex(bytes) ==
  [k \in 1..(2 * Len(bytes)) |->
     LET b == bytes[(k + 1) \div 2]
     IN HexDigits[(IF k % 2 = 1 THEN b \div 16 ELSE b % 16) + 1]]

\* hexToBuffer / hexStringToData: the colons removed, then a byte for every
\* two digits.
hexToBuffer(hex) ==
  LET cleanHex == SelectSeq(hex, LAMBDA c : c # ":")
  IN [k \in 1..(Len(cleanHex) \div 2) |->
        16 * HexValue(cleanHex[2 * k - 1]) + HexValue(cleanHex[2 * k])]

\* bufferToDeviceId: "0A:2B:3C:4D"
bufferToDeviceId(bytes) ==
  [k \in 1..(3 * Len(bytes) - 1) |->
     IF k % 3 = 0 THEN ":" ELSE ToHex(<<bytes[(k + 2) \div 3]>>)[k % 3]]

\* Buffer.writeUInt16BE / readUInt16BE
WriteUInt16BE(n) == <<n \div 256, n % 256>>

ReadUInt16BE(buffer, offset) == buffer[offset + 1] * 256 + buffer[offset + 2]

\* Buffer.writeInt16BE / readInt16BE (two's complement)
WriteInt16BE(n) == WriteUInt16BE(n % 65536)

ReadInt16BE(buffer, offset) ==
  LET u == ReadUInt16BE(buffer, offset)
  IN IF u >= 32768 THEN u - 65536 ELSE u

\* Buffer.writeFloatBE / readFloatBE: four bytes for a binary32.  The bytes
\* kept are those of the value's count of 1/131072 degree, high half first.
WriteFloatBE(v) == WriteInt16BE(v \div 65536) \o WriteUInt16BE(v % 65536)

ReadFloatBE(buffer, offset) ==
  ReadInt16BE(buffer, offset) * 65536 + ReadUInt16BE(buffer, offset + 2)

PACKET_SIZE == 20

\* The Buffer encodeBeaconData returns, byte by byte (PACKET_OFFSETS).
PacketBuffer(enc) ==
     enc.deviceId
  \o WriteFloatBE(enc.latitude)
  \o WriteFloatBE(enc.longitude)
  \o WriteInt16BE(enc.altitudeMSL)
  \o WriteInt16BE(enc.relativeAltitude)
  \o <<enc.battery>>
  \o WriteUInt16BE(enc.timestamp)
  \o <<enc.flags>>

\* flagsByte & FLAGS.x, for the bit of weight w
FlagSet(flagsByte, w) == (flagsByte \div w) % 2 = 1

\* decodeBeaconData on a buffer of PACKET_SIZE bytes.
decodeBeaconData(buffer) ==
  LET flagsByte == buffer[20]
  IN [deviceId |-> bufferToDeviceId(SubSeq(buffer, 1, 4)),
      latitude |-> ReadFloatBE(buffer, 4),
      longitude |-> ReadFloatBE(buffer, 8),
      altitudeMSL |-> ReadInt16BE(buffer, 12),
      relativeAltitude |-> ReadInt16BE(buffer, 14),
      battery |-> buffer[17],
      timestamp |-> ReadUInt16BE(buffer, 17),
      flags |-> [motionDetected |-> FlagSet(flagsByte, 1),
                 isCharging |-> FlagSet(flagsByte, 2),
                 sosActivated |-> FlagSet(flagsByte, 4),
                 lowBattery |-> FlagSet(flagsByte, 8),
                 gpsValid |-> FlagSet(flagsByte, 16),
                 stationary |-> FlagSet(flagsByte, 32)]]

COMPANY_ID_APPLE == 76

COMPANY_ID_SAMSUNG == 117

PHOENIX_MAGIC == 20552

LowByte(n) == n % 256

HighByte(n) == (n \div 256) % 256

\* iOS BLEPeripheralManager.startAdvertising: the manufacturer data put on the
\* air for the hex string handed over (<<>>: the call is rejected).
iosManufacturerData(beaconDataHex) ==
  LET data == hexToBuffer(beaconDataHex)
  IN IF Len(beaconDataHex) % 2 # 0 \/ Len(data) # 20 THEN <<>>
     ELSE <<LowByte(COMPANY_ID_APPLE), HighByte(COMPANY_ID_APPLE),
            LowByte(PHOENIX_MAGIC), HighByte(PHOENIX_MAGIC)>> \o data

\* The Android manufacturer data with the magic number written high byte first.
androidManufacturerDataMagicHighFirst(beaconDataHex) ==
  LET beaconData == hexToBuffer(beaconDataHex)
  IN IF Len(beaconData) # 20 THEN <<>>
     ELSE <<LowByte(COMPANY_ID_SAMSUNG), HighByte(COMPANY_ID_SAMSUNG)>>
          \o <<HighByte(PHOENIX_MAGIC), LowByte(PHOENIX_MAGIC)>> \o beaconData

\* Android BLEPeripheralManager.startAdvertising: addManufacturerData puts the
\* company id, low byte first, ahead of the 22 bytes built.
androidManufacturerData(beaconDataHex) ==
  LET beaconData == hexToBuffer(beaconDataHex)
  IN IF Len(beaconData) # 20 THEN <<>>
     ELSE <<LowByte(COMPANY_ID_SAMSUNG), HighByte(COMPANY_ID_SAMSUNG)>>
          \o <<LowByte(PHOENIX_MAGIC), HighByte(PHOENIX_MAGIC)>> \o beaconData

Rejected == [accepted |-> FALSE, beaconData |-> <<>>]

\* parsePhoenixBeaconData without its test of the magic number.
parsePhoenixBeaconDataAnyMagic(manufacturerData) ==
  IF ~(Len(manufacturerData) >= 24) THEN Rejected
  ELSE LET companyID == manufacturerData[1] + 256 * manufacturerData[2]
       IN IF ~(companyID = COMPANY_ID_APPLE \/ companyID = COMPANY_ID_SAMSUNG) THEN Rejected
          ELSE IF ~(Len(manufacturerData) = 24) THEN Rejected
          ELSE [accepted |-> TRUE,
                beaconData |-> ToHex(SubSeq(manufacturerData, 5, 24))]

\* iOS BLEBeaconScanner.parsePhoenixBeaconData
parsePhoenixBeaconData(manufacturerData) ==
  IF ~(Len(manufacturerData) >= 24) THEN Rejected
  ELSE LET companyID == manufacturerData[1] + 256 * manufacturerData[2]
           magic     == manufacturerData[3] + 256 * manufacturerData[4]
       IN IF ~(companyID = COMPANY_ID_APPLE \/ companyID = COMPANY_ID_SAMSUNG) THEN Rejected
          ELSE IF ~(Len(manufacturerData) = 24) THEN Rejected
          ELSE IF ~(magic = PHOENIX_MAGIC) THEN Rejected
          ELSE [accepted |-> TRUE,
                beaconData |-> ToHex(SubSeq(manufacturerData, 5, 24))]

\* Android BLEBeaconScanner.processScanResult.  ScanRecord files what follows
\* the two company-id bytes under that id (manufacturerSpecificData).
processScanResult(manufacturerData) ==
  IF Len(manufacturerData) < 2 THEN Rejected
  ELSE LET companyId   == manufacturerData[1] + 256 * manufacturerData[2]
           phoenixData == SubSeq(manufacturerData, 3, Len(manufacturerData))
           magic       == phoenixData[2] * 256 + phoenixData[1]
       IN IF companyId # COMPANY_ID_SAMSUNG /\ companyId # COMPANY_ID_APPLE THEN Rejected
          ELSE IF Len(phoenixData) # 22 THEN Rejected
          ELSE IF magic # PHOENIX_MAGIC THEN Rejected
          ELSE [accepted |-> TRUE, beaconData |-> ToHex(SubSeq(phoenixData, 3, 22))]

Platforms == {"ios", "android"}

\* The native parser of the receiver's platform.
NativeParse(platform, manufacturerData) ==
  IF platform = "ios" THEN parsePhoenixBeaconData(manufacturerData)
  ELSE processScanResult(manufacturerData)

\* transmitBeacon's hand-off on the emitter's platform: encodeBeaconData,
\* bufferToHex, then the native startAdvertising; the advertisement goes on
\* the air.
EmitFrame(platform, input) ==
  LET packet  == PacketBuffer(encodeBeaconData(input))
      hexData == ToHex(packet)
  IN /\ air' = [source |-> platform, input |-> input, payload |-> packet,
                manufacturerData |->
                  IF platform = "ios" THEN iosManufacturerData(hexData)
                  ELSE androidManufacturerData(hexData)]
     /\ UNCHANGED <<now, collectorVars, txVars, rxVars, pfVars, initVars, nativeSeen>>

\* Some other device's advertisement goes on the air.
ForeignFrame(manufacturerData) ==
  /\ air' = [source |-> "foreign", input |-> NoInput, payload |-> <<>>,
             manufacturerData |-> manufacturerData]
  /\ UNCHANGED <<now, collectorVars, txVars, rxVars, pfVars, initVars, nativeSeen>>

\* The receiver's native scan callback (centralManager didDiscover /
\* processScanResult) on the advertisement on the air: an accepted frame
\* raises onBeaconDiscovered, which handleBeaconDiscovered will decode.
Discover(platform, rssi) ==
  /\ nativeScanning
  /\ ~pendingEvent.present
  /\ air.source # "none"
  /\ air.manufacturerData # <<>>
  /\ LET r == NativeParse(platform, air.manufacturerData)
     IN /\ nativeSeen' = [source |-> air.source, input |-> air.input,
                          payload |-> air.payload,
                          manufacturerData |-> air.manufacturerData,
                          platform |-> platform,
                          accepted |-> r.accepted, beaconData |-> r.beaconData]
        /\ IF r.accepted
             THEN /\ pendingEvent' =
                       Event(decodeBeaconData(hexToBuffer(r.beaconData)), rssi, now)
                  /\ nEvents' = nEvents + 1
             ELSE UNCHANGED <<pendingEvent, nEvents>>
  /\ UNCHANGED <<now, collectorVars, txVars, pfVars, initVars, air, scannerStatus,
                 scannerError, beaconsFound, scanStartPending, scanStopPending,
                 nativeScanning, removedLog, lastFix, isScanning, beacons>>

(***************************************************************************)
(* The link from encoder input to discovery event                          *)
(***************************************************************************)
LinkDeviceId == <<10, 43, 60, 77>>

\* Encoder inputs within the encode contract: a 4-byte device id, battery in
\* 0..100, altitudes of whole metres within int16, timestamp >= 0.
LinkInput(alt, rel, bat, ts, gps, on) ==
  [NoInput EXCEPT !.deviceId = LinkDeviceId,
                  !.latitude = IF gps THEN 10 ELSE 0,
                  !.longitude = IF gps THEN 20 ELSE 0,
                  !.altitudeMSL = alt * 1000,
                  !.relativeAltitude = rel,
                  !.battery = bat,
                  !.timestamp = ts,
                  !.gpsValid = gps,
                  !.motionDetected = "motionDetected" \in on,
                  !.isCharging = "isCharging" \in on,
                  !.sosActivated = "sosActivated" \in on,
                  !.lowBattery = "lowBattery" \in on,
                  !.stationary = "stationary" \in on,
                  !.fallDetected = "fallDetected" \in on,
                  !.unstableEnvironment = "unstableEnvironment" \in on]

LinkInputs ==
  { LinkInput(120, -150, 80, 12, TRUE, {}),
    LinkInput(-32768, 32767, 0, 70000, FALSE, {"motionDetected", "isCharging"}),
    LinkInput(95, 0, 100, 65535, TRUE, {"sosActivated", "lowBattery", "stationary"}),
    LinkInput(95, 0, 50, 0, TRUE, {"fallDetected"}),
    LinkInput(95, 300, 50, 600, TRUE, {"unstableEnvironment"}),
    LinkInput(32767, -32768, 19, 1, TRUE,
              {"motionDetected", "isCharging", "sosActivated", "lowBattery",
               "stationary", "fallDetected", "unstableEnvironment"}) }

\* A frame as the iOS emitter builds it, and frames of other devices that
\* differ from it in length, in magic number or in company id.
PhoenixFrame ==
  iosManufacturerData(ToHex(PacketBuffer(encodeBeaconData(LinkInput(120, -150, 80, 12, TRUE, {})))))

ForeignFrames ==
  { SubSeq(PhoenixFrame, 1, 23),
    PhoenixFrame \o <<0>>,
    [PhoenixFrame EXCEPT ![3] = 73],
    [PhoenixFrame EXCEPT ![4] = 72],
    [PhoenixFrame EXCEPT ![1] = 6],
    [PhoenixFrame EXCEPT ![2] = 1],
    <<76, 0, 2, 21>> \o SubSeq(PhoenixFrame, 5, 24) \o <<197>>,
    <<76>>,
    <<117, 0, 72, 80>> }

LinkEmit == \E platform \in Platforms, input \in LinkInputs : EmitFrame(platform, input)

LinkForeign == \E f \in ForeignFrames : ForeignFrame(f)

MaxLinkEvents == 1

\* The scan callback, on any frame; at most MaxLinkEvents frames are accepted.
LinkDiscover ==
  \E platform \in Platforms, rssi \in RxRssis :
    Discover(platform, rssi) /\ nEvents' <= MaxLinkEvents

LinkNext ==
  \/ LinkEmit
  \/ LinkForeign
  \/ LinkDiscover
  \/ HandleBeaconDiscovered

LinkInit == RxScanningInitOn({bufferToDeviceId(LinkDeviceId)})

SpecLink == LinkInit /\ [][LinkNext]_vars

\* What the handler decodes from the frame the native scanner last accepted.
Decoded == decodeBeaconData(hexToBuffer(nativeSeen.beaconData))

EightFlags ==
  {"motionDetected", "isCharging", "sosActivated", "lowBattery", "gpsValid",
   "stationary", "fallDetected", "unstableEnvironment"}

(***************************************************************************)
(* C14 (codec round trip): for an encoder input with a 4-byte device id,   *)
(* battery in [0,100], altitudes within int16 and timestamp >= 0, decoding *)
(* the encoded packet returns the same device id, altitudeMSL,             *)
(* relativeAltitude and battery, min(timestamp, 65535), and the same value *)
(* for each of the eight flags.                                            *)
(***************************************************************************)
C14_CodecRoundTrip ==
  (nativeSeen.source \in Platforms /\ nativeSeen.accepted) =>
    LET x == nativeSeen.input
        d == Decoded
    IN /\ hexToBuffer(d.deviceId) = x.deviceId
       /\ d.altitudeMSL * 1000 = x.altitudeMSL
       /\ d.relativeAltitude = x.relativeAltitude
       /\ d.battery = x.battery
       /\ d.timestamp = Min(x.timestamp, 65535)
       /\ \A f \in EightFlags : f \in DOMAIN d.flags /\ d.flags[f] = x[f]

(***************************************************************************)
(* C15 (frame round trip): the manufacturer data an emitter builds around  *)
(* a 20-byte payload p (company id 0x004C on iOS, 0x0075 on Android, the   *)
(* magic 0x5048 low byte first, then p) is accepted by the receiver's      *)
(* frame parser, which yields exactly p.                                   *)
(***************************************************************************)
C15_FrameRoundTrip ==
  nativeSeen.source \in Platforms =>
    /\ Len(nativeSeen.payload) = PACKET_SIZE
    /\ nativeSeen.accepted
    /\ nativeSeen.beaconData = ToHex(nativeSeen.payload)
    /\ hexToBuffer(nativeSeen.beaconData) = nativeSeen.payload

\* An Android emitter's frame has been parsed by the iOS receiver, which
\* accepted it and yielded the payload.
C15_Witness ==
  /\ nativeSeen.source = "android"
  /\ nativeSeen.platform = "ios"
  /\ nativeSeen.manufacturerData[1] = COMPANY_ID_SAMSUNG
  /\ nativeSeen.accepted
  /\ hexToBuffer(nativeSeen.beaconData) = nativeSeen.payload

\* A Phoenix frame: 24 bytes, an accepted company id, the magic number.
IsPhoenixFrame(manufacturerData) ==
  /\ Len(manufacturerData) = 24
  /\ manufacturerData[1] + 256 * manufacturerData[2] \in {COMPANY_ID_APPLE, COMPANY_ID_SAMSUNG}
  /\ manufacturerData[3] + 256 * manufacturerData[4] = PHOENIX_MAGIC

\* The step on which the native scan callback runs.
Discovers == nativeSeen' # nativeSeen

(***************************************************************************)
(* C16: the receiver's frame parser rejects manufacturer data whose total  *)
(* length is not 24 bytes, whose magic is not 0x5048, or whose company id  *)
(* is neither 0x004C nor 0x0075; a rejected frame produces no              *)
(* beacon-discovered event and no change to the record store.              *)
(***************************************************************************)
C16_ForeignFrameRejected ==
  [][(Discovers /\ ~IsPhoenixFrame(air.manufacturerData))
       => /\ ~nativeSeen'.accepted
          /\ pendingEvent' = pendingEvent
          /\ nEvents' = nEvents
          /\ beaconsFound' = beaconsFound
          /\ beacons' = beacons]_vars

\* A frame with the wrong magic number has been scanned and rejected while
\* the store held a record, which is still the only one.
C16_Witness ==
  /\ nativeSeen.source = "foreign"
  /\ Len(nativeSeen.manufacturerData) = 24
  /\ nativeSeen.manufacturerData[3] = 73
  /\ ~nativeSeen.accepted
  /\ ~pendingEvent.present
  /\ Len(beaconsFound) = 1

(***************************************************************************)
(* Emitter ticks over the fixes and battery levels the sensor source can   *)
(* report                                                                  *)
(***************************************************************************)
\* No fix; a 5 m fix; a fix of accuracy 200 m; fixes below -500 m and above
\* 9000 m.
TickLocations ==
  { NoLocation,
    Location(10, 20, 120000, 500),
    Location(10, 20, 120000, 20000),
    Location(10, 20, -600000, 500),
    Location(10, 20, 9500000, 500) }

\* Battery level in thousandths; -1000 is the -1 of an unavailable level.
TickLevels == {-1000, 0, 150, 195, 200, 1000}

TickSnapshots ==
  { Snapshot(loc, Vec(0, 0, 100), NoVec, Altimeter(0), level, FALSE) :
      loc \in TickLocations, level \in TickLevels }

TickInit ==
  /\ now = EpochMs
  /\ AppInit
  /\ RxInit
  /\ PfInit
  /\ CollectorInit
  /\ TxInit
  /\ accelerationHistory = <<>>

TickCollect == \E s \in TickSnapshots : CollectData(s)

TickNext == TickCollect

SpecTick == TickInit /\ [][TickNext]_vars

\* The packet the tick hands to the peripheral: encodeBeaconData on what
\* collectData returned.
TickPayload == encodeBeaconData(lastInput)

Built == nCollect > 0 /\ TickPayload.ok

(***************************************************************************)
(* C17: every payload the emitter builds with gps_valid clear carries      *)
(* latitude 0 and longitude 0, also when a fix is present but its accuracy *)
(* is 200 m or worse.                                                      *)
(***************************************************************************)
C17_InvalidGpsZeroCoordinates ==
  (Built /\ ~FlagSet(TickPayload.flags, 16))
    => TickPayload.latitude = 0 /\ TickPayload.longitude = 0

(***************************************************************************)
(* C18: every payload the emitter builds with the low_battery flag set has *)
(* a battery field strictly below 20, for every level the sensor source    *)
(* can report.                                                             *)
(***************************************************************************)
C18_LowBatteryBelowTwenty ==
  (Built /\ FlagSet(TickPayload.flags, 8)) => TickPayload.battery < 20

(***************************************************************************)
(* C19: every payload an emitter tick produces has altitudeMSL within      *)
(* [-500, 9000], whatever altitude the location source reports.            *)
(***************************************************************************)
C19_AltitudeWithinRange ==
  Built => TickPayload.altitudeMSL >= -500 /\ TickPayload.altitudeMSL <= 9000

(***************************************************************************)
(* The precision finder on a beacon that has gone quiet, with the location *)
(* watch delivering a fix every 250 ms                                     *)
(***************************************************************************)
GPS_UPDATE_MS == 250

MaxGpsPeriods == 4

GpsLocations ==
  { ReceiverLocation(18, 20), ReceiverLocation(11, 20), ReceiverLocation(10, 20) }

\* The view about to be mounted on a record last seen 2900 ms or 3001 ms ago.
GpsInit ==
  /\ now = EpochMs
  /\ ScannerReady
  /\ CollectorInit
  /\ accelerationHistory = <<>>
  /\ TxInit
  /\ RxInit
  /\ \E rssi \in {-59, -74}, age \in {2900, 3001} : PfInitOn(rssi, now - age)

\* The location watch delivers the fix of the current 250 ms period.
GpsSample == \E loc \in GpsLocations : sampleAt < now /\ PfReceiverLocation(loc)

\* The next period starts once this period's fix has been delivered.
GpsClock ==
  /\ mounted
  /\ sampleAt = now
  /\ now + GPS_UPDATE_MS <= EpochMs + MaxGpsPeriods * GPS_UPDATE_MS
  /\ AdvanceClock(GPS_UPDATE_MS)

GpsNext ==
  \/ PfMount
  \/ GpsSample
  \/ GpsIntervalTick
  \/ GpsClock

SpecGps == GpsInit /\ [][GpsNext]_vars

\* The BLE signal is stale, the beacon has coordinates and fixes are arriving.
InGpsFallback ==
  /\ mounted
  /\ now - beacon.lastSeen > BLE_TIMEOUT
  /\ beacon.hasData
  /\ sampleAt > 0

(***************************************************************************)
(* C20 (GPS fallback): once the selected beacon's lastSeen is more than    *)
(* 3000 ms old, the beacon has coordinates and receiver fixes keep         *)
(* arriving every 250 ms, the reported distance is updated at least once   *)
(* per 250 ms, and every reported distance is >= 0.                        *)
(***************************************************************************)
C20_GpsFallbackKeepsUpdating ==
  InGpsFallback =>
    /\ now - distanceSetAt <= GPS_UPDATE_MS
    /\ distance.sum >= 0
    /\ \A k \in 1..Len(distanceHistory) : distanceHistory[k] >= 0

\* In fallback for at least two periods: this period's fix has been taken and
\* the distance was set from a GPS distance in this period.
C20_Witness ==
  /\ InGpsFallback
  /\ usingGPSFallback
  /\ now >= EpochMs + 2 * GPS_UPDATE_MS
  /\ sampleAt = now
  /\ distanceSetAt = now
  /\ lastGPSDistance.present
  /\ lastGPSDistance.value > 0

(***************************************************************************)
(* The receiver App with a beacon selected: the record store feeds the     *)
(* precision finder                                                        *)
(***************************************************************************)
\* The beacon prop made of a record of the store: the fields of it the view
\* reads.  A record always carries beaconData.
SelectedBeacon(rec) ==
  [id |-> rec.id, rssi |-> rec.rssi, lastSeen |-> rec.lastSeen, hasData |-> TRUE,
   latitude |-> rec.beaconData.latitude, longitude |-> rec.beaconData.longitude,
   gpsValid |-> rec.beaconData.flags.gpsValid,
   usingCachedGPS |-> rec.usingCachedGPS]

\* The user presses the card of the k-th beacon of the list:
\* setSelectedBeacon(beacon), and the App renders the view on it.
SelectBeacon(k) ==
  /\ ~mounted
  /\ k \in 1..Len(beacons)
  /\ beacon' = SelectedBeacon(beacons[k])
  /\ mounted' = TRUE
  /\ DistanceEffect(beacon', receiverLocation)
  /\ BearingEffect(beacon', receiverLocation, compassHeading, distance')
  /\ UNCHANGED <<linkVars, initVars, now, collectorVars, txVars, rxVars,
                 receiverLocation, sampleAt, compassHeading, compassHistory>>

\* The App's 250 ms interval while isScanning: clearStaleBeacons,
\* setBeacons(getBeacons()) and, if the selected beacon is still in the list,
\* setSelectedBeacon on its record.  A record a discovery has replaced since
\* the last render re-renders the view, and its effects run.
AppIntervalTick ==
  /\ isScanning
  /\ beaconsFound' = clearStaleBeacons(beaconsFound, now)
  /\ removedLog' = StoredIds(beaconsFound) \ StoredIds(beaconsFound')
  /\ lastFix' = [d \in DOMAIN lastFix |->
                   IF d \in StoredIds(beaconsFound') THEN lastFix[d] ELSE NoFix]
  /\ beacons' = getBeacons(beaconsFound')
  /\ LET k == IF mounted THEN IndexOfBeacon(beacons', beacon.id) ELSE 0
     IN IF k # 0 /\ SelectedBeacon(beacons'[k]) # beacon
          THEN /\ beacon' = SelectedBeacon(beacons'[k])
               /\ DistanceEffect(beacon', receiverLocation)
               /\ BearingEffect(beacon', receiverLocation, compassHeading, distance')
               /\ UNCHANGED <<receiverLocation, mounted, sampleAt, compassHeading,
                              compassHistory>>
          ELSE UNCHANGED pfVars
  /\ UNCHANGED <<linkVars, initVars, now, collectorVars, txVars, scannerStatus,
                 scannerError, scanStartPending, scanStopPending, nativeScanning,
                 pendingEvent, nEvents, isScanning>>

(***************************************************************************)
(* Specification SpecFinder: one emitter on the air, its record selected,  *)
(* receiver fixes and compass headings arriving                            *)
(***************************************************************************)
MaxFinderEvents == 2

MaxFinderTicks == 2

MaxFinderHeadings == 2

MaxFinderPeriods == 1

FinderDevice == "a1b2c3d4"

\* A payload with a fix, and one without (its coordinates zero).
FinderPayloads ==
  { Payload(FinderDevice, 10, 20, 100, TRUE), Payload(FinderDevice, 0, 0, 0, FALSE) }

FinderRssis == {-59, -66}

\* Fixes due south and due west of the coordinates the payloads carry.
FinderLocations == {ReceiverLocation(0, 20), ReceiverLocation(10, 0)}

\* Headings of 0 and 6 degrees
FinderHeadings == {0, 6 * Deg}

FinderInit == RxScanningInitOn({FinderDevice})

\* Advertisements of one emitter are more than a millisecond apart.
FinderRaise ==
  /\ nEvents < MaxFinderEvents
  /\ \A k \in 1..Len(beaconsFound) : beaconsFound[k].lastSeen < now
  /\ \E data \in FinderPayloads, rssi \in FinderRssis : RaiseBeaconDiscovered(data, rssi)

FinderSelect == \E k \in 1..Len(beacons) : SelectBeacon(k)

FinderTick == nTicks < MaxFinderTicks /\ AppIntervalTick

FinderLocation ==
  /\ nTicks < MaxFinderTicks
  /\ \E loc \in FinderLocations : PfReceiverLocation(loc)

FinderHeading ==
  /\ Len(compassHistory) < MaxFinderHeadings
  /\ \E h \in FinderHeadings : PfHeading(h)

FinderClock ==
  /\ now < EpochMs + MaxFinderPeriods * (BLE_TIMEOUT + 1)
  /\ AdvanceClock(BLE_TIMEOUT + 1)

FinderNext ==
  \/ FinderRaise
  \/ HandleBeaconDiscovered
  \/ FinderSelect
  \/ FinderTick
  \/ FinderLocation
  \/ FinderHeading
  \/ FinderClock

SpecFinder == FinderInit /\ [][FinderNext]_vars

\* The beacon prop holds coordinates that a gps-valid payload delivered, live
\* or cached.
BeaconHasFix == beacon.gpsValid \/ beacon.usingCachedGPS

(***************************************************************************)
(* C21 (hasLocation needs a receiver fix and beacon coordinates from a     *)
(* gps-valid payload): whenever the mounted view reports hasLocation, the  *)
(* receiver has a fix and the coordinates of the selected record came from *)
(* a gps-valid payload, live or cached.                                    *)
(***************************************************************************)
C21_HasLocationNeedsFixes ==
  (mounted /\ hasLocation) => (receiverLocation.present /\ BeaconHasFix)

(***************************************************************************)
(* C22 (bearing dead zone): once a bearing has been emitted (hasLocation   *)
(* is set), the emitted bearing changes in a step only if the new bearing  *)
(* differs from the one emitted before by more than 5 degrees round the    *)
(* circle, whatever the bearing emitted before was.                        *)
(***************************************************************************)
C22_BearingDeadZone ==
  [][ (mounted /\ hasLocation /\ bearing' # bearing)
        => Min(Abs(bearing' - bearing), 360 * Deg - Abs(bearing' - bearing)) > 5 * Deg ]_vars

(***************************************************************************)
(* Specification SpecSmooth: one emitter heard at varying signal strength  *)
(***************************************************************************)
MaxSmoothEvents == 6

\* A weak reading, two ordinary ones and a strong one (dBm)
SmoothRssis == {-90, -62, -60, -40}

SmoothPayload == Payload("a1b2c3d4", 10, 20, 100, TRUE)

SmoothInit == RxScanningInitOn({"a1b2c3d4"})

SmoothRaise ==
  /\ nEvents < MaxSmoothEvents
  /\ \E rssi \in SmoothRssis : RaiseBeaconDiscovered(SmoothPayload, rssi)

SmoothNext ==
  \/ SmoothRaise
  \/ HandleBeaconDiscovered

SpecSmooth == SmoothInit /\ [][SmoothNext]_vars

\* The window the delivery of the pending event gives the record: its RSSI
\* history with the new sample pushed (the last RSSI_HISTORY_MAX samples).
SmoothWindow ==
  LET h == IF beaconsFound = <<>> THEN <<>> ELSE beaconsFound[1].rssiHistory
      w == Append(h, pendingEvent.rssi)
  IN IF Len(w) > RSSI_HISTORY_MAX THEN Tail(w) ELSE w

\* Twice the median of a window.
TwiceMedian(w) ==
  LET sorted == SortAsc(w)
      n      == Len(w)
  IN IF n % 2 = 1 THEN 2 * sorted[(n + 1) \div 2]
     ELSE sorted[n \div 2] + sorted[n \div 2 + 1]

\* Q3 - Q1 of a window, the quartiles read at floor(n / 4) and floor(3 n / 4)
\* of the sorted window (counted from 0).
WindowIQR(w) ==
  LET sorted == SortAsc(w)
      n      == Len(w)
  IN sorted[(3 * n) \div 4 + 1] - sorted[n \div 4 + 1]

\* |w[k] - median| > 3 * IQR
IsOutlier(w, k) == Abs(2 * w[k] - TwiceMedian(w)) > 6 * WindowIQR(w)

\* The new sample is the only outlier of a window of at least 5 samples.
SingleOutlierPushed ==
  /\ pendingEvent.present
  /\ Len(SmoothWindow) >= 5
  /\ \A k \in 1..Len(SmoothWindow) : IsOutlier(SmoothWindow, k) <=> k = Len(SmoothWindow)

\* The samples of the window before the new one that lie within
\* [Q1 - 1.5 IQR, Q3 + 1.5 IQR], in their order.
RetainedOthers ==
  LET w      == SmoothWindow
      sorted == SortAsc(w)
      n      == Len(w)
      q1     == sorted[n \div 4 + 1]
      q3     == sorted[(3 * n) \div 4 + 1]
      inFence(v) == 2 * v >= 2 * q1 - 3 * (q3 - q1) /\ 2 * v <= 2 * q3 + 3 * (q3 - q1)
  IN SelectSeq(SubSeq(w, 1, n - 1), inFence)

(***************************************************************************)
(* C23 (RSSI outlier rejection): when the sample delivered is the single   *)
(* outlier (more than 3 IQR from the median) of a window of at least 5     *)
(* samples, the smoothed RSSI the record gets is the weighted mean, with   *)
(* weights 1, 2, ... by position and rounded to a whole dBm, of the        *)
(* retained samples other than the new one: the outlier contributes        *)
(* nothing.                                                                *)
(***************************************************************************)
C23_OutlierRejected ==
  [][ (SingleOutlierPushed /\ Delivered)
        => LET m == Len(RetainedOthers)
           IN /\ m >= 3
              /\ 2 * beaconsFound'[1].rssi * ((m * (m + 1)) \div 2)
                   - 2 * WeightedSum(RetainedOthers) \in
                     (1 - (m * (m + 1)) \div 2)..((m * (m + 1)) \div 2) ]_vars

\* An outlier has been delivered and left out: the smoothed RSSI stays with
\* the ordinary readings although the raw reading is the weak one.
C23_Witness ==
  /\ beaconsFound # <<>>
  /\ ~pendingEvent.present
  /\ Len(beaconsFound[1].rssiHistory) >= 5
  /\ beaconsFound[1].rawRssi = -90
  /\ beaconsFound[1].rssi >= -62
  /\ \A k \in 1..(Len(beaconsFound[1].rssiHistory) - 1) :
       beaconsFound[1].rssiHistory[k] \in {-62, -60}

(***************************************************************************)
(* Specification SpecHistory: one emitter on the move, its record holding  *)
(* no location history yet or the history of nine earlier advertisements   *)
(***************************************************************************)
MaxHistoryEvents == 3

HistoryDevice == "a1b2c3d4"

\* The k-th point of the history the record starts with: the emitter went
\* back and forth between two places 17 m apart, a second per leg.
EarlierPoint(k, n) ==
  [latitude |-> IF k % 2 = 1 THEN 10 ELSE 30, longitude |-> 20, altitude |-> 100,
   timestamp |-> EpochMs - (n - k + 1) * 1000]

\* The record handleBeaconDiscovered has stored after n gps-valid
\* advertisements from those places, heard at -60 dBm.
EarlierRecord(n) ==
  [present |-> TRUE, id |-> HistoryDevice,
   beaconData |-> Payload(HistoryDevice, EarlierPoint(n, n).latitude, 20, 100, TRUE),
   rssi |-> -60, rawRssi |-> -60, lastSeen |-> EpochMs - 1000,
   rssiHistory |-> [k \in 1..n |-> -60], usingCachedGPS |-> FALSE,
   locationHistory |-> [k \in 1..n |-> EarlierPoint(k, n)]]

HistoryInit ==
  /\ now = EpochMs
  /\ ScannerReady
  /\ CollectorInit
  /\ accelerationHistory = <<>>
  /\ TxInit
  /\ PfInit
  /\ scannerStatus = "scanning"
  /\ scannerError = "null"
  /\ \E n \in {0, LOCATION_HISTORY_MAX - 1} :
       /\ beaconsFound = IF n = 0 THEN <<>> ELSE <<EarlierRecord(n)>>
       /\ lastFix = [d \in {HistoryDevice} |->
                       IF n = 0 THEN NoFix
                       ELSE [present |-> TRUE, latitude |-> EarlierPoint(n, n).latitude,
                             longitude |-> 20, altitudeMSL |-> 100]]
  /\ scanStartPending = FALSE
  /\ scanStopPending = FALSE
  /\ nativeScanning = TRUE
  /\ pendingEvent = NoEvent
  /\ nEvents = 0
  /\ removedLog = {}
  /\ isScanning = TRUE
  /\ beacons = getBeacons(beaconsFound)

\* Fixes at the first place, 4.25 m and 5.10 m east of it, and a payload with
\* no fix that carries the coordinates of the second place.
HistoryPayloads ==
  { Payload(HistoryDevice, 10, 20, 100, TRUE), Payload(HistoryDevice, 10, 25, 100, TRUE),
    Payload(HistoryDevice, 10, 26, 100, TRUE), Payload(HistoryDevice, 30, 20, 100, FALSE) }

HistoryRaise ==
  /\ nEvents < MaxHistoryEvents
  /\ \E data \in HistoryPayloads : RaiseBeaconDiscovered(data, -60)

HistoryClock == now < EpochMs + 1000 /\ AdvanceClock(1000)

HistoryNext ==
  \/ HistoryRaise
  \/ HandleBeaconDiscovered
  \/ HistoryClock

SpecHistory == HistoryInit /\ [][HistoryNext]_vars

\* The location history of the device's record (empty if it has none).
StoredHistory(store) == IF store = <<>> THEN <<>> ELSE store[1].locationHistory

\* The pending payload has a fix, and the history is empty or its last point
\* is more than 5 m (500 cm) from it.
PointDue ==
  LET h == StoredHistory(beaconsFound)
      d == pendingEvent.beaconData
  IN /\ d.flags.gpsValid
     /\ \/ h = <<>>
        \/ calculateDistance(h[Len(h)].latitude, h[Len(h)].longitude,
                             d.latitude, d.longitude) > 500

(***************************************************************************)
(* C24 (location history): a delivery appends the payload's point to the   *)
(* record's location history exactly when the payload is gps-valid and the *)
(* history is empty or its last point is more than 5 m away; the history   *)
(* then keeps its 10 most recent points in arrival order; any other        *)
(* delivery, a gps-invalid one in particular, leaves the history as it     *)
(* was.                                                                    *)
(***************************************************************************)
C24_LocationHistory ==
  [][ Delivered =>
        LET h  == StoredHistory(beaconsFound)
            h2 == StoredHistory(beaconsFound')
            d  == pendingEvent.beaconData
            p  == [latitude |-> d.latitude, longitude |-> d.longitude,
                   altitude |-> d.altitudeMSL, timestamp |-> pendingEvent.timestamp]
        IN /\ Len(h2) <= 10
           /\ IF PointDue
                THEN /\ h2[Len(h2)] = p
                     /\ Len(h2) = (IF Len(h) < 10 THEN Len(h) + 1 ELSE 10)
                     /\ \A k \in 1..(Len(h2) - 1) : h2[k] = h[k + Len(h) + 1 - Len(h2)]
                ELSE h2 = h ]_vars

\* The history is full and its oldest point has been dropped for a new one.
C24_Witness ==
  /\ ~pendingEvent.present
  /\ Len(StoredHistory(beaconsFound)) = 10
  /\ StoredHistory(beaconsFound)[1].latitude = 30
  /\ StoredHistory(beaconsFound)[10].timestamp >= EpochMs

(***************************************************************************)
(* C25 (stale BLE and no GPS distance: the distance is held): on a run of  *)
(* the distance effect of a view that has shown a distance before, where   *)
(* the beacon was last seen more than 3000 ms ago and either the receiver  *)
(* has no fix or the record holds no coordinates of a gps-valid payload,   *)
(* no sample enters the smoothing window and the smoothed distance is      *)
(* unchanged.                                                              *)
(***************************************************************************)
C25_StaleNoGpsHoldsDistance ==
  [][ ( /\ mounted
        /\ distanceHistory # <<>>
        /\ PfTick
        /\ now - beacon'.lastSeen > BLE_TIMEOUT
        /\ ~(receiverLocation'.present /\ BeaconHasFix') )
        => (distanceHistory' = distanceHistory /\ distance' = distance) ]_vars

(***************************************************************************)
(* C26 (haptic gating), over the runs of the distance effect of SpecPF:    *)
(* a pulse fires on a run only if the smoothed distance d is at least      *)
(* 0.5 m and below 3 m and the time since the last pulse is at least 700   *)
(* ms for d < 1.5 m, 1000 + 1000 (d - 1.5) / 1.5 ms otherwise; and the     *)
(* time of the last pulse changes only on a run that fires one.            *)
(***************************************************************************)
C26_HapticGating ==
  [][ LET sum       == distance'.sum
          n         == distance'.n
          sinceLast == now - lastVibrationTime
          fired     == PfTick /\ vibration' # "none"
      IN /\ fired => /\ 500 * n <= sum
                     /\ sum < 3000 * n
                     /\ IF sum < 1500 * n
                          THEN sinceLast >= 700
                          \* sinceLast >= 1000 + 1000 (sum / n - 1500) / 1500
                          ELSE 1500 * n * sinceLast >= 1500 * n * 1000 + 1000 * (sum - 1500 * n)
         /\ lastVibrationTime' # lastVibrationTime => (fired /\ lastVibrationTime' = now) ]_vars

\* A pulse has fired in the 1.5 m .. 3 m band, a pulse having fired before.
C26_Witness ==
  /\ vibration = "single"
  /\ lastVibrationTime = now
  /\ nTicks >= 2
  /\ now > EpochMs

(***************************************************************************)
(* Specification SpecUptime: ticks of an emitter that stays up for more    *)
(* than 65535 seconds                                                      *)
(***************************************************************************)
\* Just under a second, a second, just over a second, and one second short
\* of 65535 seconds (ms)
UptimeSteps == {999, 1000, 1001, 65534000}

UptimeSnapshots ==
  { Snapshot(NoLocation, Vec(0, 0, 100), NoVec, Altimeter(0), level, FALSE) :
      level \in {500, 1000} }

UptimeInit == TickInit

UptimeCollect == \E s \in UptimeSnapshots : CollectData(s)

\* The clock moves on between two ticks.
UptimeClock ==
  /\ collectedAt = now
  /\ \E dt \in UptimeSteps : now' = now + dt
  /\ UNCHANGED <<linkVars, initVars, collectorVars, txVars, rxVars, pfVars>>

UptimeNext ==
  \/ UptimeCollect
  \/ UptimeClock

SpecUptime == UptimeInit /\ [][UptimeNext]_vars

\* A tick: a collectData call, whose result is encoded.
Ticks == nCollect' = nCollect + 1

MaxScanFailEvents == 2

ScanFailRaise ==
  /\ nEvents < MaxScanFailEvents
  /\ \E data \in RxPayloads : RaiseBeaconDiscovered(data, -60)

ScanFailedStep == ScanFailed("Scan failed")

ScanFailNext ==
  \/ ScanFailRaise
  \/ HandleBeaconDiscovered
  \/ ScanFailedStep
  \/ StopScanningBegin
  \/ RxStopScanningAwait
  \/ StopScanningNotScanning
  \/ StartScanningBegin
  \/ RxStartScanningAwait

SpecScanFail == RxScanningInit /\ [][ScanFailNext]_vars

\* App.stopScanning runs to its end: it clears isScanning.
StopAttemptEnds == isScanning /\ ~isScanning'

(***************************************************************************)
(* C28 (scan failure: error, then idle): a scan failure reported while     *)
(* scanning puts the scanner in 'error' with the cause, the observer       *)
(* seeing it; and once the caller's next stopScanning attempt has ended,   *)
(* the status is 'idle', not 'error'.                                      *)
(***************************************************************************)
C28_ScanFailureThenIdle ==
  [][ /\ (nativeScanning /\ ~nativeScanning' /\ scannerError' = "Scan failed")
        => scannerStatus' = "error"
      /\ (scannerStatus = "error" /\ scannerError = "Scan failed" /\ StopAttemptEnds)
        => scannerStatus' = "idle" ]_vars

(***************************************************************************)
(* Specification SpecStartAgain: an emitter that is started, and whose     *)
(* start is asked for again while it advertises                            *)
(***************************************************************************)
MaxStartWarnings == 1

StartAgain == startWarnings < MaxStartWarnings /\ StartWhileAdvertising

StartAgainNext ==
  \/ TxInitialize
  \/ StartBegin
  \/ TxStartSensor
  \/ StartFinish
  \/ TxTimerFire
  \/ TxCollectStep
  \/ TxPeripheralStopStep
  \/ TxPeripheralStartStep
  \/ StartAgain

SpecStartAgain == TxSpecInit /\ [][StartAgainNext]_vars

(***************************************************************************)
(* C29 (startAdvertising while advertising is a no-op): a step on which    *)
(* startAdvertising is entered with the transmitter initialized, no other  *)
(* start in flight and the status 'advertising' leaves the status, the     *)
(* error, the tick timer, transmissionCount and lastTransmission, the      *)
(* sensor streams, the peripheral and the invocations in flight as they    *)
(* are, and notifies no observer.                                          *)
(***************************************************************************)
C29_StartWhileAdvertisingNoOp ==
  [][ ( /\ dataCollector
        /\ status = "advertising"
        /\ \/ startWarnings' # startWarnings
           \/ startPc = 0 /\ startPc' = 1 )
        => UNCHANGED <<status, stateError, advertisingInterval, timers,
                       transmissionCount, lastTransmission, sensorStreams,
                       peripheral, tx, startPc, observed>> ]_vars

\* startAdvertising has been called again while advertising, a tick timer
\* armed and a beacon transmitted.
C29_Witness ==
  /\ startWarnings > 0
  /\ status = "advertising"
  /\ timers # {}
  /\ transmissionCount > 0

(***************************************************************************)
(* C30 (fall trigger): a collectData call made with no latch active and an *)
(* accelerometer reading present returns fallDetected = TRUE and starts    *)
(* the 60000 ms latch at the time of the call exactly when the window,     *)
(* after the current magnitude is pushed (at most the 10 most recent),     *)
(* holds at least 5 samples, one below 0.5 g, one above 2.5 g, and the     *)
(* current reading is flat (| |z| - 1 | < 0.3, |x| < 0.5, |y| < 0.5);      *)
(* otherwise it returns FALSE and leaves the latch alone.                  *)
(***************************************************************************)
\* The window after the call: the earlier window with the magnitude pushed.
WindowPushed ==
  /\ Len(accelerationHistory') <= ACCEL_HISTORY_MAX
  /\ Len(accelerationHistory') = IF Len(accelerationHistory) < ACCEL_HISTORY_MAX
                                   THEN Len(accelerationHistory) + 1
                                   ELSE ACCEL_HISTORY_MAX
  /\ accelerationHistory'[Len(accelerationHistory')] = MagSq(lastReading')

\* The pattern of the claim, on the window and the reading of the call
\* (centi-g, squared magnitudes).
FallPattern ==
  /\ Len(accelerationHistory') >= 5
  /\ \E i \in 1..Len(accelerationHistory') : accelerationHistory'[i] < 50 * 50
  /\ \E i \in 1..Len(accelerationHistory') : accelerationHistory'[i] > 250 * 250
  /\ Abs(Abs(lastReading'.z) - 100) < 30
  /\ Abs(lastReading'.x) < 50
  /\ Abs(lastReading'.y) < 50

C30_FallTrigger ==
  [][ ( /\ Ticks
        /\ lastReading'.present
        /\ ~InCooldown(fallDetectedTime, now) )
      => /\ WindowPushed
         /\ lastInput'.fallDetected <=> FallPattern
         /\ FallPattern => fallDetectedTime' = now
         /\ ~FallPattern => fallDetectedTime' = fallDetectedTime ]_vars

\* A call that has just triggered: flat, flagged, and the latch started at
\* the time of the call, after a window that held a free fall and an impact.
C30_Witness ==
  /\ nCollect > 0
  /\ lastReading.present
  /\ lastInput.fallDetected
  /\ fallDetectedTime = collectedAt
  /\ Len(accelerationHistory) >= 5
  /\ accelerationHistory[Len(accelerationHistory)] = MagSq(lastReading)

(***************************************************************************)
(* RSSI window of a record (SpecWindow)                                    *)
(***************************************************************************)
MaxWindowEvents == 3

WindowDevice == "a1b2c3d4"

\* Raw readings of nine earlier advertisements, in arrival order (dBm).
WindowEarlier == <<-60, -62, -60, -90, -60, -62, -60, -62, -61>>

\* The record handleBeaconDiscovered has stored after those advertisements.
WindowRecord ==
  [present |-> TRUE, id |-> WindowDevice,
   beaconData |-> Payload(WindowDevice, 10, 20, 100, TRUE),
   rssi |-> smoothRSSI(WindowEarlier[9], SubSeq(WindowEarlier, 1, 8)).smoothed,
   rawRssi |-> WindowEarlier[9], lastSeen |-> EpochMs - 1000,
   rssiHistory |-> WindowEarlier, usingCachedGPS |-> FALSE,
   locationHistory |-> <<[latitude |-> 10, longitude |-> 20, altitude |-> 100,
                          timestamp |-> EpochMs - 9000]>>]

WindowInit ==
  /\ now = EpochMs
  /\ ScannerReady
  /\ CollectorInit
  /\ accelerationHistory = <<>>
  /\ TxInit
  /\ PfInit
  /\ scannerStatus = "scanning"
  /\ scannerError = "null"
  /\ \E earlier \in BOOLEAN :
       /\ beaconsFound = IF earlier THEN <<WindowRecord>> ELSE <<>>
       /\ lastFix = [d \in {WindowDevice} |->
                       IF earlier
                         THEN [present |-> TRUE, latitude |-> 10, longitude |-> 20,
                               altitudeMSL |-> 100]
                         ELSE NoFix]
  /\ scanStartPending = FALSE
  /\ scanStopPending = FALSE
  /\ nativeScanning = TRUE
  /\ pendingEvent = NoEvent
  /\ nEvents = 0
  /\ removedLog = {}
  /\ isScanning = TRUE
  /\ beacons = getBeacons(beaconsFound)

WindowRaise ==
  /\ nEvents < MaxWindowEvents
  /\ \E rssi \in SmoothRssis :
       RaiseBeaconDiscovered(Payload(WindowDevice, 10, 20, 100, TRUE), rssi)

WindowNext ==
  \/ WindowRaise
  \/ HandleBeaconDiscovered

SpecWindow == WindowInit /\ [][WindowNext]_vars

\* The raw readings the record held before the delivery, in arrival order.
ArrivedBefore == IF beaconsFound = <<>> THEN <<>> ELSE beaconsFound[1].rssiHistory

\* The last n elements of a sequence (all of it when it is shorter).
MostRecent(q, n) == IF Len(q) <= n THEN q ELSE SubSeq(q, Len(q) - n + 1, Len(q))

\* The samples of a window that outlier rejection retains: from 5 samples
\* on, those within [Q1 - 1.5 IQR, Q3 + 1.5 IQR] when at least 3 are; the
\* whole window otherwise.
Retained(w) ==
  LET sorted == SortAsc(w)
      n      == Len(w)
      q1     == sorted[n \div 4 + 1]
      q3     == sorted[(3 * n) \div 4 + 1]
      inFence(v) == 2 * v >= 2 * q1 - 3 * (q3 - q1) /\ 2 * v <= 2 * q3 + 3 * (q3 - q1)
      kept   == SelectSeq(w, inFence)
  IN IF n >= 5 /\ Len(kept) >= 3 THEN kept ELSE w

\* r = round(sum(v_i * i) / sum(i)) over v, halves rounded up as Math.round
\* does: -1/2 <= sum(v_i * i) / sum(i) - r < 1/2.
IsWeightedMean(r, v) ==
  LET wt == (Len(v) * (Len(v) + 1)) \div 2
  IN 2 * r * wt - 2 * WeightedSum(v) \in (1 - wt)..wt

(***************************************************************************)
(* C31 (RSSI smoothing): every advertisement delivered for a device leaves *)
(* in the record's rssiHistory the (at most 10) most recent raw RSSI       *)
(* values in arrival order, the raw values held before followed by the new *)
(* one; the stored smoothed RSSI is round(sum(v_i * i) / sum(i)) over the  *)
(* samples v_1..v_n retained after outlier rejection, in arrival order;    *)
(* and rawRssi is the latest raw value.                                    *)
(***************************************************************************)
C31_RssiWindow ==
  [][ Delivered
        => LET w == MostRecent(Append(ArrivedBefore, pendingEvent.rssi), RSSI_HISTORY_MAX)
           IN /\ beaconsFound'[1].rssiHistory = w
              /\ IsWeightedMean(beaconsFound'[1].rssi, Retained(w))
              /\ beaconsFound'[1].rawRssi = pendingEvent.rssi ]_vars

\* A full window that has dropped its oldest reading and keeps an outlier
\* out of the mean: the weak reading arrived last, the smoothed value stays
\* with the ordinary ones.
C31_Witness ==
  /\ beaconsFound # <<>>
  /\ ~pendingEvent.present
  /\ nEvents >= 2
  /\ Len(beaconsFound[1].rssiHistory) = RSSI_HISTORY_MAX
  /\ beaconsFound[1].rssiHistory[1] = WindowEarlier[3]
  /\ beaconsFound[1].rawRssi = -90
  /\ beaconsFound[1].rssi > -65
  /\ Len(Retained(beaconsFound[1].rssiHistory)) < RSSI_HISTORY_MAX

(***************************************************************************)
(* C32 (GPS fallback flag): after every run of the distance effect         *)
(* usingGPSFallback is true only if that run took the GPS branch (the BLE  *)
(* reading is more than 3000 ms old, the receiver has a fix and the record *)
(* holds coordinates); a run that computed the distance by the RSSI        *)
(* path-loss formula leaves usingGPSFallback false.                        *)
(***************************************************************************)
\* The run of the distance effect took the path-loss branch.
PathLossRun ==
  /\ PfTick
  /\ ~( /\ now - beacon'.lastSeen > BLE_TIMEOUT
        /\ beacon'.hasData
        /\ receiverLocation'.present )

C32_FallbackFlagOnlyOnGps ==
  [][ (mounted' /\ PathLossRun) => ~usingGPSFallback' ]_vars

(***************************************************************************)
(* C33 (the tick loop is alive while advertising): whenever                *)
(* startAdvertising has completed and the transmitter status is            *)
(* advertising, a tick timer is armed, so that another transmit attempt    *)
(* follows; also when the first transmit, or a later one, failed at the    *)
(* peripheral.                                                             *)
(***************************************************************************)
C33_AdvertisingHasTimer ==
  (status = "advertising" /\ startPc = 0) => timers # {}

(***************************************************************************)
(* Overlapping transmitBeacon invocations (SpecOverlap): a transmitter     *)
(* whose platform calls all succeed, with room for two invocations started *)
(* by the tick timer at once.                                              *)
(***************************************************************************)
MaxOverlapInflight == 2

MaxOverlapTransmissions == 3

OverlapSlots == 0..MaxOverlapInflight

\* A device lying still without motion sensors, at 80 % and at 50 % battery.
OverlapSnapshots ==
  { Snapshot(NoLocation, NoVec, NoVec, NoAltimeter, level, FALSE) : level \in {800, 500} }

OverlapInit ==
  /\ now = EpochMs
  /\ AppInit
  /\ RxInit
  /\ PfInit
  /\ CollectorInit
  /\ accelerationHistory = <<>>
  /\ dataCollector = FALSE
  /\ status = "idle"
  /\ stateError = "null"
  /\ lastTransmission = 0
  /\ transmissionCount = 0
  /\ advertisingInterval = 0
  /\ timers = {}
  /\ observed = [status |-> "idle", error |-> "null", lastTransmission |-> 0,
                 transmissionCount |-> 0]
  /\ startPc = 0
  /\ stopPc = 0
  /\ stopLog = NoStopLog
  /\ tx = [i \in OverlapSlots |-> NoTx]
  /\ staleEffects = {}
  /\ peripheral = [advertising |-> FALSE, data |-> NoPacket]
  /\ sensorStreams = {}

OverlapInitialize == \E s \in OverlapSnapshots : Initialize("poweredOn", TRUE, s)

OverlapStartSensor == StartSensor(TRUE)

OverlapTimerFire == \E i \in OverlapSlots : TimerFire(i)

OverlapCollect == \E i \in OverlapSlots, s \in OverlapSnapshots : TxCollect(i, s, TRUE)

OverlapPeripheralStop == \E i \in OverlapSlots : TxPeripheralStop(i)

OverlapPeripheralStart ==
  \E i \in OverlapSlots :
    /\ transmissionCount < MaxOverlapTransmissions
    /\ TxPeripheralStart(i, TRUE)

OverlapNext ==
  \/ OverlapInitialize
  \/ StartBegin
  \/ OverlapStartSensor
  \/ StartFinish
  \/ OverlapTimerFire
  \/ OverlapCollect
  \/ OverlapPeripheralStop
  \/ OverlapPeripheralStart

SpecOverlap == OverlapInit /\ [][OverlapNext]_vars

\* Invocation i hands its payload to the peripheral and returns, as the last
\* of the invocations in flight, after a later invocation has read a newer
\* snapshot (lastInput) and has handed its payload to the peripheral.
OlderCompletesLast(i) ==
  /\ tx[i].pc = "pstart"
  /\ transmissionCount' = transmissionCount + 1
  /\ \A j \in DOMAIN tx : tx'[j].pc = "none"
  /\ tx[i].input # lastInput
  /\ peripheral.data = encodeBeaconData(lastInput)

(***************************************************************************)
(* C34 (overlapping transmits): when two transmitBeacon invocations        *)
(* overlap, after both have completed the payload the peripheral           *)
(* advertises is the one built from the more recent sensor snapshot, never *)
(* the older one.                                                          *)
(***************************************************************************)
C34_NewestPayloadWins ==
  [][ \A i \in DOMAIN tx :
        OlderCompletesLast(i) => peripheral'.data = encodeBeaconData(lastInput) ]_vars

(***************************************************************************)
(* C35 (one tick timer): at any time at most one tick timer of the         *)
(* transmitter is armed, and it is the one advertisingInterval holds,      *)
(* under every interleaving of startAdvertising, stopAdvertising and       *)
(* transmitBeacon invocations in flight: a timer that was replaced or      *)
(* given up has been cleared, so none is left firing without a handle.     *)
(***************************************************************************)
C35_OneTickTimer ==
  /\ Cardinality(timers) <= 1
  /\ \A t \in timers : t.id = advertisingInterval

\* A timer was cleared by stopAdvertising, and an invocation that was in
\* flight then has armed the timer that is held now, after an earlier timer.
C35_Witness ==
  /\ stopLog.timerCleared
  /\ transmissionCount >= 2
  /\ Cardinality(timers) = 1
  /\ advertisingInterval # 0

(***************************************************************************)
(* C36 (a new latch needs fresh evidence): after a fall latch has expired, *)
(* the detector latches again only if a free-fall sample (< 0.5 g) and an  *)
(* impact sample (> 2.5 g) were both recorded after the previous           *)
(* detection.  No sample is recorded while the latch is active and a flat  *)
(* reading is neither of the two, so in particular the first collectData   *)
(* call after the latch has expired does not detect a fall.                *)
(***************************************************************************)
\* The call is the first one since the latch started at fallDetectedTime
\* expired: the call before it was made while the latch was active.
FirstCallAfterLatch ==
  /\ Ticks
  /\ fallDetectedTime > 0
  /\ ~InCooldown(fallDetectedTime, now)
  /\ collectedAt >= fallDetectedTime
  /\ collectedAt - fallDetectedTime < FALL_COOLDOWN_MS

C36_FreshEvidence ==
  [][ FirstCallAfterLatch
        => (~lastInput'.fallDetected /\ fallDetectedTime' = fallDetectedTime) ]_vars

(***************************************************************************)
(* Emitter ticks at altitude (SpecWire): the collector is initialized on   *)
(* one snapshot and then collects on others                                *)
(***************************************************************************)
\* No fix, a fix at 120 m and a fix at 400 m above sea level (5 m accuracy).
WireLocations ==
  { NoLocation, Location(10, 20, 120000, 500), Location(10, 20, 400000, 500) }

\* No barometer, and a barometer that reads 0 m and 12 m of climb.
WireAltimeters == { NoAltimeter, Altimeter(0), Altimeter(12000) }

WireLevels == {150, 800}

WireSnapshots ==
  { Snapshot(loc, Vec(0, 0, 100), NoVec, alt, level, FALSE) :
      loc \in WireLocations, alt \in WireAltimeters, level \in WireLevels }

WireInit == TickInit

WireInitialize == \E s \in WireSnapshots : Initialize("poweredOn", TRUE, s)

WireCollect == dataCollector /\ \E s \in WireSnapshots : CollectData(s)

WireNext == WireInitialize \/ WireCollect

SpecWire == WireInit /\ [][WireNext]_vars

(***************************************************************************)
(* C37 (every tick encodes): for every sensor snapshot, the values         *)
(* collectData passes to encodeBeaconData fit their wire fields            *)
(* (relativeAltitude in centimetres and altitudeMSL in metres within the   *)
(* signed 16-bit range), so that encoding never fails and every tick       *)
(* yields a 20-byte payload.                                               *)
(***************************************************************************)
C37_EveryTickEncodes ==
  nCollect > 0
    => /\ InInt16(lastInput.relativeAltitude)
       /\ InInt16(RoundDiv(lastInput.altitudeMSL, 1000))
       /\ encodeBeaconData(lastInput).ok

(***************************************************************************)
(* The tick loop of an emitter on changing battery levels (SpecPower):     *)
(* every platform call succeeds                                            *)
(***************************************************************************)
\* Battery level in thousandths: unavailable (-1), 5 %, 9.4 %, 15 %, 80 %.
PowerLevels == {-1000, 50, 94, 150, 800}

\* A device at rest and a device being carried, without gyroscope.
PowerSnapshots ==
  { Snapshot(NoLocation, acc, NoVec, NoAltimeter, level, FALSE) :
      acc \in {Vec(0, 0, 100), Vec(0, 0, 150)}, level \in PowerLevels }

PowerInitialize == \E s \in PowerSnapshots : Initialize("poweredOn", TRUE, s)

PowerStartSensor == StartSensor(TRUE)

PowerCollect == \E i \in TxSlots, s \in PowerSnapshots : TxCollect(i, s, TRUE)

PowerPeripheralStart ==
  \E i \in TxSlots :
    /\ transmissionCount < MaxTransmissions
    /\ TxPeripheralStart(i, TRUE)

PowerNext ==
  \/ PowerInitialize
  \/ StartBegin
  \/ PowerStartSensor
  \/ StartFinish
  \/ TxTimerFire
  \/ PowerCollect
  \/ TxPeripheralStopStep
  \/ PowerPeripheralStart

SpecPower == TxSpecInit /\ [][PowerNext]_vars

(***************************************************************************)
(* C38 (critical-battery interval): the emitter arms the 15000 ms interval *)
(* only on a payload whose battery level is known and below 10 percent,    *)
(* and every payload it arms that interval on has the low_battery flag     *)
(* set; on a level reported as unavailable (-1) with no emergency flag the *)
(* interval follows motion alone (3000 or 5000 ms).  A known level below   *)
(* 10 percent always sets low_battery, so a critical interval armed on a   *)
(* payload without the flag is one chosen on an unavailable level.         *)
(***************************************************************************)
C38_CriticalOnlyWhenKnownLow ==
  \A t \in timers :
    (t.id = advertisingInterval /\ t.interval = INTERVAL_CRITICAL)
      => /\ peripheral.data.battery < 10
         /\ FlagSet(peripheral.data.flags, 8)

(***************************************************************************)
(* C39 (the level shown is never too far): after every run of the distance *)
(* effect the proximity level is never farther than the natural level of   *)
(* the smoothed distance, and it is either the level before the run or the *)
(* natural level: never far below 5 m, nor medium below 1.5 m, nor near    *)
(* below 0.5 m.                                                            *)
(***************************************************************************)
C39_LevelNeverTooFar ==
  [][PfTick =>
       LET nat == NaturalOf(distance'.sum, distance'.n)
       IN /\ RankOf(proximityLevel') <= RankOf(nat)
          /\ proximityLevel' \in {lastProximityLevel, nat}
          /\ lastProximityLevel' = proximityLevel']_vars

\* Both cases have happened on one view: the level was taken down to near at
\* once, and is held at near by the margin although the smoothed distance
\* has gone back above 1.5 m.
C39_Witness ==
  /\ nTicks >= 2
  /\ proximityLevel = "near"
  /\ lastProximityLevel = "near"
  /\ NaturalOf(distance.sum, distance.n) = "medium"
  /\ \E k \in 1..Len(distanceHistory) : distanceHistory[k] < 1500

(***************************************************************************)
(* The IQR filter on windows of every length (SpecQuartile)                *)
(***************************************************************************)
MaxQuartileEvents == 2

\* Raw readings of nine earlier advertisements: ordinary ones with weak and
\* strong ones in between; all ordinary; and mostly extreme ones.
QuartileEarlier ==
  { <<-60, -90, -60, -40, -60, -90, -62, -40, -60>>,
    <<-60, -60, -60, -60, -60, -60, -60, -60, -60>>,
    <<-90, -40, -90, -40, -60, -90, -40, -90, -40>> }

\* The record handleBeaconDiscovered has stored after the readings h.
QuartileRecord(h) ==
  [WindowRecord EXCEPT
     !.rssiHistory = h,
     !.rawRssi = h[Len(h)],
     !.rssi = smoothRSSI(h[Len(h)], SubSeq(h, 1, Len(h) - 1)).smoothed]

QuartileInit ==
  /\ now = EpochMs
  /\ ScannerReady
  /\ CollectorInit
  /\ accelerationHistory = <<>>
  /\ TxInit
  /\ PfInit
  /\ scannerStatus = "scanning"
  /\ scannerError = "null"
  /\ \E h \in QuartileEarlier, k \in 4..(RSSI_HISTORY_MAX - 1) :
       beaconsFound = <<QuartileRecord(SubSeq(h, 1, k))>>
  /\ lastFix = [d \in {WindowDevice} |->
                  [present |-> TRUE, latitude |-> 10, longitude |-> 20,
                   altitudeMSL |-> 100]]
  /\ scanStartPending = FALSE
  /\ scanStopPending = FALSE
  /\ nativeScanning = TRUE
  /\ pendingEvent = NoEvent
  /\ nEvents = 0
  /\ removedLog = {}
  /\ isScanning = TRUE
  /\ beacons = getBeacons(beaconsFound)

QuartileRaise ==
  /\ nEvents < MaxQuartileEvents
  /\ \E rssi \in SmoothRssis :
       RaiseBeaconDiscovered(Payload(WindowDevice, 10, 20, 100, TRUE), rssi)

QuartileNext ==
  \/ QuartileRaise
  \/ HandleBeaconDiscovered

SpecQuartile == QuartileInit /\ [][QuartileNext]_vars

\* The samples of a window, in their order, that lie within [Q1, Q3] (strict)
\* or within the fence [Q1 - 1.5 IQR, Q3 + 1.5 IQR] (otherwise).
WithinQuartiles(w, strict) ==
  LET sorted == SortAsc(w)
      n      == Len(w)
      q1     == sorted[n \div 4 + 1]
      q3     == sorted[(3 * n) \div 4 + 1]
      margin == IF strict THEN 0 ELSE 3 * (q3 - q1)
      inside(v) == 2 * v >= 2 * q1 - margin /\ 2 * v <= 2 * q3 + margin
  IN SelectSeq(w, inside)

(***************************************************************************)
(* C40 (the IQR filter keeps at least 3 samples): for every window of 5 to *)
(* 10 integer samples smoothRSSI filters, the values between               *)
(* Q1 = sorted[floor(0.25 n)] and Q3 = sorted[floor(0.75 n)] number at     *)
(* least 3 and all survive the filter, so that the fall-back to the        *)
(* unfiltered window is never taken: the smoothed value is the weighted    *)
(* mean of the filtered samples, over a weight sum that is not zero.       *)
(***************************************************************************)
C40_FilterKeepsThree ==
  [][ (Delivered /\ Len(ArrivedBefore) >= 4)
        => LET w    == MostRecent(Append(ArrivedBefore, pendingEvent.rssi),
                                  RSSI_HISTORY_MAX)
               kept == WithinQuartiles(w, FALSE)
           IN /\ Len(w) \in 5..10
              /\ Len(WithinQuartiles(w, TRUE)) >= 3
              /\ Len(kept) >= Len(WithinQuartiles(w, TRUE))
              /\ (Len(kept) * (Len(kept) + 1)) \div 2 > 0
              /\ IsWeightedMean(beaconsFound'[1].rssi, kept) ]_vars

\* A window of 5 of which the filter has kept exactly 3: the weak and the
\* strong reading are out and the smoothed value is that of the other three.
C40_Witness ==
  /\ ~pendingEvent.present
  /\ nEvents >= 1
  /\ Len(beaconsFound[1].rssiHistory) = 5
  /\ Len(WithinQuartiles(beaconsFound[1].rssiHistory, FALSE)) = 3
  /\ beaconsFound[1].rssi = -60

====
